---- MODULE Spec2Model ----
(***************************************************************************)
(* Vector quantization layer of sjy-dv/vemoo: the product quantizer        *)
(* (pkg/vectorspace/product.go) and the binary quantizer                   *)
(* (pkg/vectorspace/binary.go) over the item cache and the key-value       *)
(* store (storage/storage.go).                                             *)
(*                                                                         *)
(* float32 values are modelled by integers.  Vector components are drawn   *)
(* from multiples of 12, so that every mean over at most four points is an *)
(* exact integer, as the corresponding float32 division is exact.          *)
(* A nil or empty Go slice is the empty sequence; where the code tells nil *)
(* from empty (binaryQuantizer.threshold) the value is wrapped: <<>> is    *)
(* nil and <<s>> is the non-nil slice s.                                   *)
(* A uint64 word is the set of its set bit positions, a subset of 0..63.   *)
(***************************************************************************)
EXTENDS Integers, Sequences, FiniteSets, TLC

\* ------------------------------------------------------------------------
\* Bounds of the model

\* point ids are 1..MaxId
MaxId == 2
\* vector components are 12 * (0..MaxVal)
MaxVal == 1
\* number of KV write or delete failures injected in one behaviour
MaxFailures == 1
\* params.NumSubVectors (M), params.NumCentroids (K), subvector length
NumSubVectors == 2
NumCentroids == 2
subVectorLen == 1
\* params.TriggerThreshold, of both quantizers
TriggerThreshold == 2
\* longest vector given to encode on its own
MaxEncLen == 65
MaxNewSubVectors == 3
MaxNewVectorLen == 4

\* kmeans.KMeans.MaxIter as set by productQuantizer.Fit
MaxIter == 100
\* math.MaxFloat32, the largest number of the model's number type
MaxFloat32 == 2147483647
\* bits of one word of a binary vector
WordBits == 64
MaxCentroids == 256

Ids == 1..MaxId
FloatVals == {12 * i : i \in 0..MaxVal}
originalVectorLen == NumSubVectors * subVectorLen
Vectors == [1..originalVectorLen -> FloatVals]
\* the vectors given to Set: the same component in every dimension
SetVectors == {[i \in 1..originalVectorLen |-> f] : f \in FloatVals}

DistanceEuclidean == "euclidean"
DistanceCosine == "cosine"
DistanceDot == "dot"
DistNames == {DistanceEuclidean, DistanceCosine, DistanceDot}

\* ------------------------------------------------------------------------
\* Helpers on sequences

RECURSIVE SumSeq(_)
SumSeq(s) == IF s = <<>> THEN 0 ELSE Head(s) + SumSeq(Tail(s))

Zeros(n) == [i \in 1..n |-> 0]

\* all orders in which the elements of a finite set can be visited
Orders(S) ==
    {o \in [1..Cardinality(S) -> S] : \A i, j \in 1..Cardinality(S) : i # j => o[i] # o[j]}

\* ------------------------------------------------------------------------
\* pkg/distance: float kernels on equal-length slices

squaredEuclidean(x, y) == SumSeq([i \in 1..Len(x) |-> (x[i] - y[i]) * (x[i] - y[i])])
dotProduct(x, y) == SumSeq([i \in 1..Len(x) |-> x[i] * y[i]])

\* A kernel is defined on slices of equal length; what it does on others is
\* not defined (see the callers).
GetFloatDistanceFn(name, x, y) ==
    IF name = DistanceEuclidean THEN squaredEuclidean(x, y)
    ELSE IF name = DistanceCosine THEN 1 - dotProduct(x, y)
    ELSE 0 - dotProduct(x, y)

\* popcount of XOR over equal-length word slices
hammingDistance(a, b) ==
    SumSeq([i \in 1..Len(a) |-> Cardinality((a[i] \ b[i]) \cup (b[i] \ a[i]))])

\* ------------------------------------------------------------------------
\* pkg/conversion: byte encodings and node keys

Pow256(k) == IF k = 0 THEN 1 ELSE IF k = 1 THEN 256 ELSE IF k = 2 THEN 65536 ELSE 16777216

Abs(n) == IF n < 0 THEN 0 - n ELSE n

\* byte k (0 = least significant) of a float: magnitude little-endian, the sign
\* in the top bit of the last byte
FloatByte(f, k) ==
    IF k < 3 THEN (Abs(f) \div Pow256(k)) % 256
    ELSE ((Abs(f) \div Pow256(3)) % 128) + (IF f < 0 THEN 128 ELSE 0)

Float32ToBytes(fs) == [i \in 1..(4 * Len(fs)) |-> FloatByte(fs[((i - 1) \div 4) + 1], (i - 1) % 4)]

FloatFromBytes(b0, b1, b2, b3) ==
    LET mag == b0 + 256 * b1 + 65536 * b2 + 16777216 * (b3 % 128)
    IN IF b3 >= 128 THEN 0 - mag ELSE mag

BytesToFloat32(bs) ==
    [i \in 1..(Len(bs) \div 4) |-> FloatFromBytes(bs[4 * i - 3], bs[4 * i - 2], bs[4 * i - 1], bs[4 * i])]

Pow2(t) == IF t = 0 THEN 1 ELSE IF t = 1 THEN 2 ELSE IF t = 2 THEN 4 ELSE IF t = 3 THEN 8
           ELSE IF t = 4 THEN 16 ELSE IF t = 5 THEN 32 ELSE IF t = 6 THEN 64 ELSE 128

\* byte j (0 = least significant) of a uint64 word
WordByte(w, j) == SumSeq([t \in 1..8 |-> IF (8 * j + t - 1) \in w THEN Pow2(t - 1) ELSE 0])

EdgeListToBytes(ws) == [i \in 1..(8 * Len(ws)) |-> WordByte(ws[((i - 1) \div 8) + 1], (i - 1) % 8)]

ByteBits(b) == {t \in 0..7 : (b \div Pow2(t)) % 2 = 1}

BytesToEdgeList(bs) ==
    [i \in 1..(Len(bs) \div 8) |->
        UNION {{8 * j + t : t \in ByteBits(bs[8 * (i - 1) + j + 1])} : j \in 0..7}]

NodeKey(id, tag) == <<tag, id>>
\* the id set of the keys of a store that carry the tag
NodeIdsFromKeys(keys, tag) == {k[2] : k \in {kk \in keys : kk[1] = tag}}

productQuantizerCentroidDistsKey == <<"_productQuantizerCentroidDists", 0>>
productQuantizerFlatCentroidsKey == <<"_productQuantizerFlatCentroids", 0>>
binaryQuantizerThresholdKey == <<"_binaryQuantizerThreshold", 0>>

\* ------------------------------------------------------------------------
\* pkg/kmeans: Lloyd's iteration on the column window (Offset, VectorLen)

RECURSIVE firstDistinct(_, _)
firstDistinct(rows, acc) ==
    IF rows = <<>> THEN acc
    ELSE IF \E i \in 1..Len(acc) : acc[i] = Head(rows)
         THEN firstDistinct(Tail(rows), acc)
         ELSE firstDistinct(Tail(rows), Append(acc, Head(rows)))

\* the first K distinct rows; remaining centroids duplicate the last distinct one
kmeansInit(rows, K, VectorLen) ==
    LET d == firstDistinct(rows, <<>>)
    IN [k \in 1..K |-> IF k <= Len(d) THEN d[k]
                       ELSE IF Len(d) = 0 THEN Zeros(VectorLen) ELSE d[Len(d)]]

\* Euclidean assignment, the lowest index among the nearest centroids
kmeansAssign(rows, cents) ==
    [j \in 1..Len(rows) |->
        (CHOOSE k \in 1..Len(cents) :
            \A k2 \in 1..Len(cents) :
                \/ squaredEuclidean(rows[j], cents[k]) < squaredEuclidean(rows[j], cents[k2])
                \/ /\ squaredEuclidean(rows[j], cents[k]) = squaredEuclidean(rows[j], cents[k2])
                   /\ k <= k2) - 1]

\* the mean of each cluster; an empty cluster keeps its centroid
kmeansUpdate(rows, labels, cents, VectorLen) ==
    [k \in 1..Len(cents) |->
        LET n == SumSeq([j \in 1..Len(rows) |-> IF labels[j] = k - 1 THEN 1 ELSE 0])
        IN IF n = 0 THEN cents[k]
           ELSE [i \in 1..VectorLen |->
                    SumSeq([j \in 1..Len(rows) |-> IF labels[j] = k - 1 THEN rows[j][i] ELSE 0]) \div n]]

\* (the bound variables of the set constructors hold evaluated values)
RECURSIVE kmeansLloyd(_, _, _, _, _)
kmeansLloyd(rows, cents, labels, iter, VectorLen) ==
    IF iter >= MaxIter THEN [Centroids |-> cents, Labels |-> labels]
    ELSE CHOOSE r \in {IF l2 = labels THEN [Centroids |-> c2, Labels |-> l2]
                       ELSE kmeansLloyd(rows, c2, l2, iter + 1, VectorLen) :
                          <<c2, l2>> \in {<<c, kmeansAssign(rows, c)>> :
                                            c \in {kmeansUpdate(rows, labels, cents, VectorLen)}}} : TRUE

KMeansFit(allVectors, K, Offset, VectorLen) ==
    CHOOSE r \in {kmeansLloyd(rows, c0, kmeansAssign(rows, c0), 1, VectorLen) :
                    <<rows, c0>> \in {<<rr, kmeansInit(rr, K, VectorLen)>> :
                        rr \in {[j \in 1..Len(allVectors) |->
                                    SubSeq(allVectors[j], Offset + 1, Offset + VectorLen)]}}} : TRUE

\* ------------------------------------------------------------------------
\* State

VARIABLES
    variant,        \* "pq": a productQuantizer is open on the store; "bq": a binaryQuantizer
    distFnName,     \* the distance name the quantizer is configured with
    paramThreshold, \* binary quantizer params.Threshold: <<>> (nil) or <<t>>
    items,          \* the item cache: resident id -> [value, IsDirty]
    kv,             \* the key-value store: key -> bytes
    flatCentroids,  \* productQuantizer.flatCentroids
    centroidDists,  \* productQuantizer.centroidDists
    threshold,      \* binaryQuantizer.threshold: <<>> (nil) or <<slice>>
    failures,       \* KV failures injected so far
    panicked,       \* the process died on a Go panic and has not been reopened
    lastOp,         \* the last operation, see Op
    hist,           \* per id, what was last written for it (history)
    training        \* the training of productQuantizer.Fit in progress, see FitIdle

vars == <<variant, distFnName, paramThreshold, items, kv, flatCentroids, centroidDists,
          threshold, failures, panicked, lastOp, hist, training>>

Nil == <<>>
EmptyMap == [e \in {} |-> 0]

\* no Fit is training. While one is, ord is the order in which ForEach gave
\* the points, allVectors their vectors, trainers[m] the position of trainer
\* goroutine m - 1, km[m] what its kmeans.Fit returned, and writes and reads
\* the pairs <<m, location>> of the memory locations it has written and read
FitIdle ==
    [pc |-> "idle", ord |-> <<>>, allVectors |-> <<>>, trainers |-> <<>>, km |-> <<>>,
     writes |-> {}, reads |-> {}]

\* storage.Storage.Get / Put / Delete on the store s
StorageHas(s, k) == k \in DOMAIN s
StoragePut(s, k, v) == [kk \in (DOMAIN s) \cup {k} |-> IF kk = k THEN v ELSE s[kk]]
StorageDelete(s, k) == [kk \in (DOMAIN s) \ {k} |-> s[kk]]

RECURSIVE ApplyPuts(_, _)
ApplyPuts(s, puts) ==
    IF puts = <<>> THEN s
    ELSE ApplyPuts(StoragePut(s, Head(puts)[1], Head(puts)[2]), Tail(puts))

RECURSIVE ApplyDeletes(_, _)
ApplyDeletes(s, keys) ==
    IF keys = <<>> THEN s ELSE ApplyDeletes(StorageDelete(s, Head(keys)), Tail(keys))

\* ------------------------------------------------------------------------
\* productQuantizer

\* newProductQuantizer substitutes the Euclidean kernel for cosine
PQ_distFnName == IF distFnName = DistanceCosine THEN DistanceEuclidean ELSE distFnName

PQ_distFn(x, y) == GetFloatDistanceFn(PQ_distFnName, x, y)

\* 0-based index into centroidDists
centroidDistIdx(subvector, centroidX, centroidY) ==
    subvector * NumCentroids * NumCentroids + centroidX * NumCentroids + centroidY

\* the range of a centroid computed without the subvector's block
flatCentroidSlice_noSubvector(subvector, centroid) ==
    LET start == centroid * subVectorLen
    IN [start |-> start, end |-> start + subVectorLen]

\* 0-based half-open range [start, end) into flatCentroids
flatCentroidSlice(subvector, centroid) ==
    LET start == subvector * NumCentroids * subVectorLen + centroid * subVectorLen
    IN [start |-> start, end |-> start + subVectorLen]

\* s[start:end]
Slice(s, start, end) == SubSeq(s, start + 1, end)

PQ_centroid(flat, i, j) ==
    Slice(flat, flatCentroidSlice(i, j).start, flatCentroidSlice(i, j).end)

RECURSIVE PQ_closestCentroid(_, _, _, _, _)
PQ_closestCentroid(subVector, i, j, closestCentroidDistance, closestCentroidId) ==
    IF j >= NumCentroids THEN closestCentroidId
    ELSE LET dist == PQ_distFn(subVector, PQ_centroid(flatCentroids, i, j))
         IN IF dist < closestCentroidDistance
            THEN PQ_closestCentroid(subVector, i, j + 1, dist, j)
            ELSE PQ_closestCentroid(subVector, i, j + 1, closestCentroidDistance, closestCentroidId)

PQ_encode(vector) ==
    IF Len(flatCentroids) = 0 THEN <<>>
    ELSE [m \in 1..NumSubVectors |->
            PQ_closestCentroid(Slice(vector, (m - 1) * subVectorLen, m * subVectorLen),
                               m - 1, 0, MaxFloat32, 0) % 256]

PQ_Point(id, vector, centroidIds, dirty) ==
    [id |-> id, Vector |-> vector, CentroidIds |-> centroidIds, isDirty |-> dirty]

\* ReadFrom that prefers the raw vector to the code
PQ_ReadFrom_vectorFirst(id, s) ==
    IF StorageHas(s, NodeKey(id, "v"))
    THEN [ok |-> TRUE, point |-> PQ_Point(id, BytesToFloat32(s[NodeKey(id, "v")]), <<>>, FALSE)]
    ELSE IF StorageHas(s, NodeKey(id, "q"))
    THEN [ok |-> TRUE, point |-> PQ_Point(id, <<>>, s[NodeKey(id, "q")], FALSE)]
    ELSE [ok |-> FALSE, point |-> PQ_Point(id, <<>>, <<>>, FALSE)]

\* productQuantizedPoint.ReadFrom: [ok, point]
PQ_ReadFrom(id, s) ==
    IF StorageHas(s, NodeKey(id, "q"))
    THEN [ok |-> TRUE, point |-> PQ_Point(id, <<>>, s[NodeKey(id, "q")], FALSE)]
    ELSE IF ~StorageHas(s, NodeKey(id, "v"))
    THEN [ok |-> FALSE, point |-> PQ_Point(id, <<>>, <<>>, FALSE)]
    ELSE [ok |-> TRUE, point |-> PQ_Point(id, BytesToFloat32(s[NodeKey(id, "v")]), <<>>, FALSE)]

\* productQuantizedPoint.WriteTo: the Puts it makes, in order
PQ_WriteTo(p) ==
    (IF Len(p.Vector) # 0 THEN <<<<NodeKey(p.id, "v"), Float32ToBytes(p.Vector)>>>> ELSE <<>>)
    \o (IF Len(p.CentroidIds) # 0 THEN <<<<NodeKey(p.id, "q"), p.CentroidIds>>>> ELSE <<>>)

\* DeleteFrom that forgets the code key
PQ_DeleteFrom_vectorOnly(id) == <<NodeKey(id, "v")>>

\* productQuantizedPoint.DeleteFrom: the keys it deletes, in order
PQ_DeleteFrom(id) == <<NodeKey(id, "v"), NodeKey(id, "q")>>

\* productQuantizedPoint.IdFromKey over the keys of the store
PQ_IdFromKey(keys) == NodeIdsFromKeys(keys, "v")

\* ------------------------------------------------------------------------
\* binaryQuantizer

\* encode indexes the threshold past its end
BQ_encodePanics(thr, vector) == thr # Nil /\ Len(vector) > Len(thr[1])

\* encode with a comparison that is not strict
BQ_encode_nonStrict(thr, vector) ==
    IF thr = Nil THEN <<>>
    ELSE LET numUint64s == (Len(vector) \div WordBits)
                           + (IF Len(vector) % WordBits # 0 THEN 1 ELSE 0)
         IN [w \in 1..numUint64s |->
                {i % WordBits : i \in {ii \in 0..(Len(vector) - 1) :
                                          /\ ii \div WordBits = w - 1
                                          /\ vector[ii + 1] >= thr[1][ii + 1]}}]

\* thr is binaryQuantizer.threshold: <<>> (nil) or <<slice>>
BQ_encode(thr, vector) ==
    IF thr = Nil THEN <<>>
    ELSE LET numUint64s == (Len(vector) \div WordBits)
                           + (IF Len(vector) % WordBits # 0 THEN 1 ELSE 0)
         IN [w \in 1..numUint64s |->
                {i % WordBits : i \in {ii \in 0..(Len(vector) - 1) :
                                          /\ ii \div WordBits = w - 1
                                          /\ vector[ii + 1] > thr[1][ii + 1]}}]

BQ_Point(id, vector, binaryVector, dirty) ==
    [id |-> id, Vector |-> vector, BinaryVector |-> binaryVector, isDirty |-> dirty]

\* binaryQuantizedPoint.ReadFrom: [ok, point]
BQ_ReadFrom(id, s) ==
    IF StorageHas(s, NodeKey(id, "q"))
    THEN [ok |-> TRUE, point |-> BQ_Point(id, <<>>, BytesToEdgeList(s[NodeKey(id, "q")]), FALSE)]
    ELSE IF ~StorageHas(s, NodeKey(id, "v"))
    THEN [ok |-> FALSE, point |-> BQ_Point(id, <<>>, <<>>, FALSE)]
    ELSE [ok |-> TRUE, point |-> BQ_Point(id, BytesToFloat32(s[NodeKey(id, "v")]), <<>>, FALSE)]

\* binaryQuantizedPoint.WriteTo: the Puts it makes, in order
BQ_WriteTo(p) ==
    IF Len(p.BinaryVector) # 0
    THEN <<<<NodeKey(p.id, "q"), EdgeListToBytes(p.BinaryVector)>>>>
    ELSE IF Len(p.Vector) # 0
    THEN <<<<NodeKey(p.id, "v"), Float32ToBytes(p.Vector)>>>>
    ELSE <<>>

\* binaryQuantizedPoint.DeleteFrom: the keys it deletes, in order
BQ_DeleteFrom(id) == <<NodeKey(id, "v"), NodeKey(id, "q")>>

\* binaryQuantizedPoint.IdFromKey over the keys of the store
BQ_IdFromKey(keys) == NodeIdsFromKeys(keys, "v")

\* ------------------------------------------------------------------------
\* pkg/cache: ItemCache over the point type of the open quantizer

ReadFrom(id, s) == IF variant = "pq" THEN PQ_ReadFrom(id, s) ELSE BQ_ReadFrom(id, s)
WriteTo(p) == IF variant = "pq" THEN PQ_WriteTo(p) ELSE BQ_WriteTo(p)
DeleteFrom(id) == IF variant = "pq" THEN PQ_DeleteFrom(id) ELSE BQ_DeleteFrom(id)
IdFromKey(keys) == IF variant = "pq" THEN PQ_IdFromKey(keys) ELSE BQ_IdFromKey(keys)
\* the quantized code of a point
Code(p) == IF variant = "pq" THEN p.CentroidIds ELSE p.BinaryVector

\* the logical content of a point
Logical(p) == [Vector |-> p.Vector, Code |-> Code(p)]

Resident == DOMAIN items

\* the ids known to memory or storage
cache_KnownIds == Resident \cup IdFromKey(DOMAIN kv)

cache_Count == Cardinality(cache_KnownIds)

\* Put: insert or replace, mark dirty
cache_Put(id, point) ==
    [i \in Resident \cup {id} |-> IF i = id THEN [value |-> point, IsDirty |-> TRUE] ELSE items[i]]

\* the cache after ForEach has loaded every known point
cache_ForEach ==
    [i \in cache_KnownIds |->
        IF i \in Resident THEN items[i] ELSE [value |-> ReadFrom(i, kv).point, IsDirty |-> FALSE]]

cache_Remove(ids) == [i \in Resident \ ids |-> items[i]]

IsDirtyEntry(e) == e.IsDirty \/ e.value.isDirty

DirtyIds == {i \in Resident : IsDirtyEntry(items[i])}

\* CheckAndClearDirty of the point type: the point afterwards
CheckAndClearDirty(p) == [p EXCEPT !.isDirty = FALSE]

RECURSIVE WritePoints(_, _)
WritePoints(s, W) ==
    IF W = {} THEN s
    ELSE LET i == CHOOSE w \in W : TRUE
         IN WritePoints(ApplyPuts(s, WriteTo(items[i].value)), W \ {i})

\* Flush of the cache.  Every outcome: the dirty points written in full
\* (written), and, when a Put failed, the point whose WriteTo failed (failedId)
\* and the number of its Puts that were applied before the failing one.
cache_FlushOutcomes ==
    {[ok |-> TRUE, written |-> DirtyIds, failedId |-> 0, applied |-> 0]}
    \cup
    (IF failures < MaxFailures
     THEN {[ok |-> FALSE, written |-> W, failedId |-> f, applied |-> n] :
              <<W, f, n>> \in {t \in (SUBSET DirtyIds) \X DirtyIds \X (0..1) :
                                  /\ t[2] \notin t[1]
                                  /\ t[3] < Len(WriteTo(items[t[2]].value))}}
     ELSE {})

cache_FlushStore(o) ==
    LET s1 == WritePoints(kv, o.written)
    IN IF o.ok THEN s1
       ELSE ApplyPuts(s1, SubSeq(WriteTo(items[o.failedId].value), 1, o.applied))

\* a written point has both dirty marks cleared; the point whose write failed
\* was asked CheckAndClearDirty before the write and keeps the cache's mark
cache_FlushItems(o) ==
    [i \in Resident |->
        IF i \in o.written
        THEN [value |-> CheckAndClearDirty(items[i].value), IsDirty |-> FALSE]
        ELSE IF ~o.ok /\ i = o.failedId
        THEN [value |-> CheckAndClearDirty(items[i].value), IsDirty |-> items[i].IsDirty]
        ELSE items[i]]

\* ------------------------------------------------------------------------
\* History

\* mem: where the resident value of the id comes from ("setUnfit", "setFit": a
\*   Set while the quantizer was unfit or fit, not changed since; "deleted": the
\*   id was deleted and not set since; "none" otherwise)
\* snap: <<>> or <<the logical point written by the last successful Flush>>
\* snapFrom: mem at that Flush (on a deleted id: "flushedCode", "flushedVector"
\*   or "none", what the snap of the point was when it was deleted)
\* away: whether the entry left memory since ("no", "evicted", "reopened")
HistNone == [mem |-> "none", snap |-> <<>>, snapFrom |-> "none", away |-> "no"]

\* op is "Fit", "Flush", a distance query, or "Other" for the operations whose
\* outcome the state itself shows; afterTrain: the operation before it was a
\* Fit that trained
Op(op, id, x, res, dist) ==
    [op |-> op, id |-> id, x |-> x, res |-> res, dist |-> dist,
     afterTrain |-> (lastOp.op = "Fit" /\ lastOp.res = "trained")]

\* an operation of which the history keeps no argument
Op0(op, res) == Op(op, 0, <<>>, res, 0)

\* after a Set of id
HistSet(id, fit) ==
    [hist EXCEPT ![id] = [HistNone EXCEPT !.mem = IF fit THEN "setFit" ELSE "setUnfit"]]

\* after a Flush with outcome o
HistFlush(o, allOk) ==
    [i \in Ids |->
        IF i \in o.written /\ allOk
        THEN [hist[i] EXCEPT !.snap = <<Logical(items[i].value)>>, !.snapFrom = hist[i].mem,
                             !.away = "no"]
        ELSE IF i \in o.written \/ (~o.ok /\ i = o.failedId)
        THEN [hist[i] EXCEPT !.snap = <<>>, !.snapFrom = "none", !.away = "no"]
        ELSE hist[i]]

\* after the points of ids were changed in memory by Fit
HistFit(ids) ==
    [i \in Ids |-> IF i \in ids THEN HistNone ELSE hist[i]]

\* after the entries of ids left memory
HistAway(ids, how) ==
    [i \in Ids |->
        IF i \in ids
        THEN [hist[i] EXCEPT !.mem = IF hist[i].mem = "deleted" THEN "deleted" ELSE "none",
                             !.away = IF hist[i].snap # <<>> \/ hist[i].mem = "deleted"
                                      THEN how ELSE hist[i].away]
        ELSE hist[i]]

\* after a Delete of id; snapFrom tells what the last successful Flush had
\* written of the deleted point
HistDelete(id) ==
    [hist EXCEPT ![id] = [HistNone EXCEPT
                             !.mem = "deleted",
                             !.snapFrom = IF hist[id].snap = <<>> THEN "none"
                                          ELSE IF Len(hist[id].snap[1].Code) # 0
                                          THEN "flushedCode" ELSE "flushedVector"]]

\* ------------------------------------------------------------------------
\* productQuantizer: operations

PQ_Set(id, vector) ==
    /\ variant = "pq" /\ ~panicked
    /\ items' = cache_Put(id, PQ_Point(id, vector, PQ_encode(vector), FALSE))
    /\ hist' = HistSet(id, Len(flatCentroids) # 0)
    /\ lastOp' = Op0("Other", "ok")
    /\ UNCHANGED <<training, variant, distFnName, paramThreshold, kv, flatCentroids, centroidDists,
                   threshold, failures, panicked>>

\* the flat centroid table the trainers fill: trainer i copies its centroid j
\* into the slice flatCentroidSlice(i, j)
PQ_trainFlat(km) ==
    [p \in 1..(NumSubVectors * NumCentroids * subVectorLen) |->
        LET hit == {h \in (0..(NumSubVectors - 1)) \X (0..(NumCentroids - 1)) :
                       /\ flatCentroidSlice(h[1], h[2]).start <= p - 1
                       /\ p - 1 < flatCentroidSlice(h[1], h[2]).end}
        IN IF hit = {} THEN 0
           ELSE LET h == CHOOSE hh \in hit : TRUE
                IN km[h[1] + 1].Centroids[h[2] + 1][p - flatCentroidSlice(h[1], h[2]).start]]

\* the centroid distance table computed with the configured kernel, cosine
\* not replaced
PQ_trainDists_configured(km) ==
    [p \in 1..(NumSubVectors * NumCentroids * NumCentroids) |->
        LET hit == {h \in (0..(NumSubVectors - 1)) \X (0..(NumCentroids - 1)) \X (0..(NumCentroids - 1)) :
                       centroidDistIdx(h[1], h[2], h[3]) = p - 1}
        IN IF hit = {} THEN 0
           ELSE LET h == CHOOSE hh \in hit : TRUE
                IN GetFloatDistanceFn(distFnName, km[h[1] + 1].Centroids[h[2] + 1],
                                      km[h[1] + 1].Centroids[h[3] + 1])]

\* the centroid distance table: trainer i stores distFn(centroid j, centroid k)
\* at centroidDistIdx(i, j, k)
PQ_trainDists(km) ==
    [p \in 1..(NumSubVectors * NumCentroids * NumCentroids) |->
        LET hit == {h \in (0..(NumSubVectors - 1)) \X (0..(NumCentroids - 1)) \X (0..(NumCentroids - 1)) :
                       centroidDistIdx(h[1], h[2], h[3]) = p - 1}
        IN IF hit = {} THEN 0
           ELSE LET h == CHOOSE hh \in hit : TRUE
                IN PQ_distFn(km[h[1] + 1].Centroids[h[2] + 1], km[h[1] + 1].Centroids[h[3] + 1])]

\* the process dies on a Go panic: its memory is gone
PQ_Panic ==
    /\ panicked' = TRUE
    /\ items' = EmptyMap
    /\ flatCentroids' = <<>>
    /\ centroidDists' = <<>>
    /\ hist' = HistAway(Ids, "reopened")

\* Fit without the already-fit test
PQ_FitTrains_refit == cache_Count >= TriggerThreshold

\* Fit with the point count tested one too low
PQ_FitTrains_early == Len(flatCentroids) = 0 /\ cache_Count >= TriggerThreshold - 1

\* Fit trains unless the quantizer is already fit or has too few points
PQ_FitTrains == Len(flatCentroids) = 0 /\ cache_Count >= TriggerThreshold

PQ_Fit ==
    /\ variant = "pq" /\ ~panicked
    /\ IF ~PQ_FitTrains
       THEN /\ lastOp' = Op0("Fit", "noop")
            /\ UNCHANGED <<items, kv, flatCentroids, centroidDists, hist, panicked>>
       ELSE \E ord \in Orders(cache_KnownIds) :
            \E loaded \in {cache_ForEach} :
            \E allVectors \in {[j \in 1..Len(ord) |-> loaded[ord[j]].value.Vector]} :
              IF \E j \in 1..Len(ord) : Len(allVectors[j]) < originalVectorLen
              THEN \* the trainer slices a vector that is too short: the process dies
                   /\ PQ_Panic
                   /\ lastOp' = Op0("Fit", "panic")
                   /\ UNCHANGED kv
              ELSE \E km \in {[m \in 1..NumSubVectors |->
                                KMeansFit(allVectors, NumCentroids, (m - 1) * subVectorLen,
                                          subVectorLen)]} :
                   /\ items' = [i \in DOMAIN loaded |->
                                 [loaded[i] EXCEPT
                                     !.value.CentroidIds =
                                         [m \in 1..NumSubVectors |->
                                             km[m].Labels[CHOOSE j \in 1..Len(ord) : ord[j] = i] % 256],
                                     !.value.isDirty = TRUE]]
                   /\ flatCentroids' = PQ_trainFlat(km)
                   /\ centroidDists' = PQ_trainDists(km)
                   /\ hist' = HistFit(DOMAIN loaded)
                   /\ lastOp' = Op0("Fit", "trained")
                   /\ UNCHANGED <<kv, panicked>>
    /\ UNCHANGED <<training, variant, distFnName, paramThreshold, threshold, failures>>

\* the Puts of the centroid tables without the test that they are filled
PQ_TablePuts_always ==
    <<<<productQuantizerCentroidDistsKey, Float32ToBytes(centroidDists)>>,
      <<productQuantizerFlatCentroidsKey, Float32ToBytes(flatCentroids)>>>>

\* the Puts of the centroid tables
PQ_TablePuts ==
    IF Len(flatCentroids) # 0
    THEN <<<<productQuantizerCentroidDistsKey, Float32ToBytes(centroidDists)>>,
           <<productQuantizerFlatCentroidsKey, Float32ToBytes(flatCentroids)>>>>
    ELSE <<>>

\* Flush of a quantizer: the cache, then the tables given as Puts; the history
\* keeps how the cache flush ended and the number of table Puts done
FlushWith(tablePuts) ==
    \E o \in cache_FlushOutcomes :
        \E n \in 0..Len(tablePuts) :
            LET allOk == o.ok /\ n = Len(tablePuts)
            IN /\ o.ok \/ n = 0
               /\ allOk \/ failures < MaxFailures
               /\ kv' = ApplyPuts(cache_FlushStore(o), SubSeq(tablePuts, 1, n))
               /\ items' = cache_FlushItems(o)
               /\ failures' = IF allOk THEN failures ELSE failures + 1
               /\ hist' = HistFlush(o, allOk)
               /\ lastOp' = Op("Flush", 0, <<IF o.ok THEN "cache flushed" ELSE "cache failed", n>>,
                               IF allOk THEN "ok" ELSE "error", 0)

PQ_Flush ==
    /\ variant = "pq" /\ ~panicked
    /\ FlushWith(PQ_TablePuts)
    /\ UNCHANGED <<training, variant, distFnName, paramThreshold, flatCentroids, centroidDists,
                   threshold, panicked>>

\* what a distance closure returns when its kernel was given slices of
\* different length and did not panic: not defined
KernelUndefined == {0, MaxFloat32}

\* the type assertions y.(*productQuantizedPoint) and y.(*binaryQuantizedPoint)
PQ_isPoint(y) == "CentroidIds" \in DOMAIN y
BQ_isPoint(y) == "BinaryVector" \in DOMAIN y

\* the variant of a point and its code
PointKind(y) == IF PQ_isPoint(y) THEN "pq" ELSE "bq"
PointCode(y) == IF PQ_isPoint(y) THEN y.CentroidIds ELSE y.BinaryVector

\* the arguments of DistanceFromFloat(x)(y) as the history keeps them
QueryArgs(x, y) == <<x, y.Vector, PointCode(y), PointKind(y)>>

\* a distance closure has returned dist for the query x and the point y
Returned(op, x, y, res, dist) ==
    /\ lastOp' = Op(op, y.id, QueryArgs(x, y), res, dist)
    /\ UNCHANGED <<items, flatCentroids, centroidDists, threshold, panicked, hist>>

\* DistanceFromFloat with the configured kernel in the unfit branch
PQ_DistanceFromFloat_configured(x, y) ==
    IF Len(flatCentroids) = 0
    THEN GetFloatDistanceFn(distFnName, x, y.Vector)
    ELSE LET dists == [p \in 1..(NumSubVectors * NumCentroids) |->
                          PQ_distFn(Slice(x, ((p - 1) \div NumCentroids) * subVectorLen,
                                             (((p - 1) \div NumCentroids) + 1) * subVectorLen),
                                    PQ_centroid(flatCentroids, (p - 1) \div NumCentroids,
                                                (p - 1) % NumCentroids))]
         IN SumSeq([i \in 1..NumSubVectors |->
                       dists[(i - 1) * NumCentroids + y.CentroidIds[i] + 1]])

\* DistanceFromFloat(x)(y) that returns the zero value for a foreign point
PQ_DistanceFromFloat_zero(x, y) ==
    IF ~PQ_isPoint(y) THEN 0
    ELSE IF Len(flatCentroids) = 0
    THEN PQ_distFn(x, y.Vector)
    ELSE SumSeq([i \in 1..NumSubVectors |->
                    PQ_distFn(Slice(x, (i - 1) * subVectorLen, i * subVectorLen),
                              PQ_centroid(flatCentroids, i - 1, y.CentroidIds[i]))])

\* DistanceFromFloat(x)(y) that looks every subvector up in the first block of
\* dists
PQ_DistanceFromFloat_firstBlock(x, y) ==
    IF ~PQ_isPoint(y) THEN MaxFloat32
    ELSE IF Len(flatCentroids) = 0
    THEN PQ_distFn(x, y.Vector)
    ELSE SumSeq([i \in 1..NumSubVectors |->
                    PQ_distFn(Slice(x, 0, subVectorLen),
                              PQ_centroid(flatCentroids, 0, y.CentroidIds[i]))])

\* DistanceFromFloat(x)(y)
\* DistanceFromFloat that prefers the raw vector of the point when it has one
PQ_DistanceFromFloat_rawFirst(x, y) ==
    IF ~PQ_isPoint(y) THEN MaxFloat32
    ELSE IF Len(flatCentroids) = 0 \/ Len(y.Vector) # 0
    THEN PQ_distFn(x, y.Vector)
    ELSE SumSeq([i \in 1..NumSubVectors |->
                    PQ_distFn(Slice(x, (i - 1) * subVectorLen, i * subVectorLen),
                              PQ_centroid(flatCentroids, i - 1, y.CentroidIds[i]))])

PQ_DistanceFromFloat(x, y) ==
    IF ~PQ_isPoint(y) THEN MaxFloat32
    ELSE IF Len(flatCentroids) = 0
    THEN PQ_distFn(x, y.Vector)
    ELSE LET dists == [p \in 1..(NumSubVectors * NumCentroids) |->
                          PQ_distFn(Slice(x, ((p - 1) \div NumCentroids) * subVectorLen,
                                             (((p - 1) \div NumCentroids) + 1) * subVectorLen),
                                    PQ_centroid(flatCentroids, (p - 1) \div NumCentroids,
                                                (p - 1) % NumCentroids))]
         IN SumSeq([i \in 1..NumSubVectors |->
                       dists[(i - 1) * NumCentroids + y.CentroidIds[i] + 1]])

\* the call DistanceFromFloat(x)(y)
PQ_DistanceFromFloatCall(x, y) ==
    /\ variant = "pq" /\ ~panicked
    /\ IF Len(flatCentroids) = 0
       THEN IF ~PQ_isPoint(y)
            THEN Returned("DistanceFromFloat", x, y, "sentinel", PQ_DistanceFromFloat(x, y))
            ELSE IF Len(x) = Len(y.Vector)
            THEN Returned("DistanceFromFloat", x, y, "ok", PQ_DistanceFromFloat(x, y))
            ELSE \/ PQ_Panic /\ lastOp' = Op("DistanceFromFloat", y.id, QueryArgs(x, y), "panic", 0)
                 \/ \E d \in KernelUndefined :
                        Returned("DistanceFromFloat", x, y, "undefined", d)
       ELSE IF Len(x) < originalVectorLen
            THEN \* x is sliced past its end before the closure is built
                 PQ_Panic /\ lastOp' = Op0("DistanceFromFloat", "panic")
            ELSE IF ~PQ_isPoint(y)
            THEN Returned("DistanceFromFloat", x, y, "sentinel", PQ_DistanceFromFloat(x, y))
            ELSE IF Len(y.CentroidIds) < NumSubVectors
            THEN \* the code is indexed past its end
                 PQ_Panic /\ lastOp' = Op("DistanceFromFloat", y.id, QueryArgs(x, y), "panic", 0)
            ELSE Returned("DistanceFromFloat", x, y, "ok", PQ_DistanceFromFloat(x, y))
    /\ UNCHANGED <<training, variant, distFnName, paramThreshold, kv, threshold, failures>>

\* newProductQuantizer on the same store
PQ_New ==
    /\ variant = "pq"
    /\ items' = EmptyMap
    /\ centroidDists' = IF StorageHas(kv, productQuantizerCentroidDistsKey)
                        THEN BytesToFloat32(kv[productQuantizerCentroidDistsKey]) ELSE <<>>
    /\ flatCentroids' = IF StorageHas(kv, productQuantizerFlatCentroidsKey)
                        THEN BytesToFloat32(kv[productQuantizerFlatCentroidsKey]) ELSE <<>>
    /\ panicked' = FALSE
    /\ hist' = HistAway(Ids, "reopened")
    /\ lastOp' = Op0("Other", "ok")
    /\ UNCHANGED <<training, variant, distFnName, paramThreshold, kv, threshold, failures>>

\* ------------------------------------------------------------------------
\* binaryQuantizer: operations

\* the process dies on a Go panic: its memory is gone
Panic ==
    /\ panicked' = TRUE
    /\ items' = EmptyMap
    /\ flatCentroids' = <<>>
    /\ centroidDists' = <<>>
    /\ threshold' = Nil
    /\ hist' = HistAway(Ids, "reopened")

\* Set that encodes against a threshold of zeros whatever the quantizer has
BQ_Set_zeroThreshold(id, vector) ==
    /\ variant = "bq" /\ ~panicked
    /\ items' = cache_Put(id, BQ_Point(id, vector, BQ_encode(<<Zeros(Len(vector))>>, vector), FALSE))
    /\ hist' = HistSet(id, threshold # Nil)
    /\ lastOp' = Op0("Other", "ok")
    /\ UNCHANGED <<training, variant, distFnName, paramThreshold, kv, failures,
                   flatCentroids, centroidDists, threshold, panicked>>

BQ_Set(id, vector) ==
    /\ variant = "bq" /\ ~panicked
    /\ IF BQ_encodePanics(threshold, vector)
       THEN /\ Panic
            /\ lastOp' = Op0("Other", "panic")
       ELSE /\ items' = cache_Put(id, BQ_Point(id, vector, BQ_encode(threshold, vector), FALSE))
            /\ hist' = HistSet(id, threshold # Nil)
            /\ lastOp' = Op0("Other", "ok")
            /\ UNCHANGED <<flatCentroids, centroidDists, threshold, panicked>>
    /\ UNCHANGED <<training, variant, distFnName, paramThreshold, kv, failures>>

\* Fit trains unless a threshold is set or the quantizer has too few points
BQ_FitTrains == threshold = Nil /\ cache_Count >= TriggerThreshold

\* first pass of Fit that keeps the last vector instead of adding it
BQ_fitSum_last(allVectors, sum) ==
    IF allVectors = <<>> THEN sum
    ELSE [i \in 1..Len(sum) |->
             IF i <= Len(allVectors[Len(allVectors)])
             THEN allVectors[Len(allVectors)][i] ELSE 0]

\* first pass of Fit over the vectors in visiting order: the per-dimension sum,
\* allocated with the length of the first vector
RECURSIVE BQ_fitSum(_, _)
BQ_fitSum(allVectors, sum) ==
    IF allVectors = <<>> THEN sum
    ELSE BQ_fitSum(Tail(allVectors),
                   [i \in 1..Len(sum) |->
                       sum[i] + (IF i <= Len(Head(allVectors)) THEN Head(allVectors)[i] ELSE 0)])

BQ_Fit ==
    /\ variant = "bq" /\ ~panicked
    /\ IF ~BQ_FitTrains
       THEN /\ lastOp' = Op0("Fit", "noop")
            /\ UNCHANGED <<items, kv, flatCentroids, centroidDists, threshold, hist, panicked>>
       ELSE \E ord \in Orders(cache_KnownIds) :
            \E loaded \in {cache_ForEach} :
            \E allVectors \in {[j \in 1..Len(ord) |-> loaded[ord[j]].value.Vector]} :
              IF \E j \in 1..Len(ord) : Len(allVectors[j]) > Len(allVectors[1])
              THEN \* sum[i] += v past the end of sum
                   /\ Panic
                   /\ lastOp' = Op0("Fit", "panic")
                   /\ UNCHANGED kv
              ELSE \E sum \in {IF Len(ord) = 0 THEN Nil
                               ELSE <<[i \in 1..Len(allVectors[1]) |->
                                         BQ_fitSum(allVectors, Zeros(Len(allVectors[1])))[i]
                                             \div Len(ord)]>>} :
                   /\ threshold' = sum
                   /\ items' = [i \in DOMAIN loaded |->
                                 [loaded[i] EXCEPT
                                     !.value.BinaryVector = BQ_encode(sum, loaded[i].value.Vector),
                                     !.value.isDirty = TRUE]]
                   /\ hist' = HistFit(DOMAIN loaded)
                   /\ lastOp' = Op0("Fit", "trained")
                   /\ UNCHANGED <<kv, flatCentroids, centroidDists, panicked>>
    /\ UNCHANGED <<training, variant, distFnName, paramThreshold, failures>>

\* the Put of the threshold
BQ_TablePuts ==
    IF threshold # Nil /\ Len(threshold[1]) > 0
    THEN <<<<binaryQuantizerThresholdKey, Float32ToBytes(threshold[1])>>>>
    ELSE <<>>

BQ_Flush ==
    /\ variant = "bq" /\ ~panicked
    /\ FlushWith(BQ_TablePuts)
    /\ UNCHANGED <<training, variant, distFnName, paramThreshold, flatCentroids, centroidDists,
                   threshold, panicked>>

\* DistanceFromFloat(x)(y)
BQ_DistanceFromFloat(x, y) ==
    IF ~BQ_isPoint(y) THEN MaxFloat32
    ELSE IF threshold # Nil
    THEN hammingDistance(BQ_encode(threshold, x), y.BinaryVector)
    ELSE GetFloatDistanceFn(distFnName, x, y.Vector)

\* the call DistanceFromFloat(x)(y)
BQ_DistanceFromFloatCall(x, y) ==
    /\ variant = "bq" /\ ~panicked
    /\ IF BQ_encodePanics(threshold, x)
       THEN \* encode(x) fails before the closure is built
            Panic /\ lastOp' = Op0("DistanceFromFloat", "panic")
       ELSE IF ~BQ_isPoint(y)
            THEN Returned("DistanceFromFloat", x, y, "sentinel", BQ_DistanceFromFloat(x, y))
            ELSE IF \/ threshold # Nil /\ Len(BQ_encode(threshold, x)) = Len(y.BinaryVector)
                    \/ threshold = Nil /\ Len(x) = Len(y.Vector)
            THEN Returned("DistanceFromFloat", x, y, "ok", BQ_DistanceFromFloat(x, y))
            ELSE \/ Panic /\ lastOp' = Op("DistanceFromFloat", y.id, QueryArgs(x, y), "panic", 0)
                 \/ \E d \in KernelUndefined :
                        Returned("DistanceFromFloat", x, y, "undefined", d)
    /\ UNCHANGED <<training, variant, distFnName, paramThreshold, kv, failures>>

\* encode(vector) called on its own
BQ_encodeCall(vector) ==
    /\ variant = "bq" /\ ~panicked
    /\ IF BQ_encodePanics(threshold, vector)
       THEN Panic /\ lastOp' = Op0("encode", "panic")
       ELSE /\ lastOp' = Op("encode", 0, <<vector, BQ_encode(threshold, vector)>>, "ok", 0)
            /\ UNCHANGED <<items, flatCentroids, centroidDists, threshold, panicked, hist>>
    /\ UNCHANGED <<training, variant, distFnName, paramThreshold, kv, failures>>

\* the threshold newBinaryQuantizer sets up over the store s
BQ_newThreshold(s) ==
    IF paramThreshold # Nil THEN <<[i \in 1..originalVectorLen |-> paramThreshold[1]]>>
    ELSE IF StorageHas(s, binaryQuantizerThresholdKey)
    THEN <<BytesToFloat32(s[binaryQuantizerThresholdKey])>>
    ELSE Nil

\* newBinaryQuantizer on the same store
BQ_New ==
    /\ variant = "bq"
    /\ items' = EmptyMap
    /\ threshold' = BQ_newThreshold(kv)
    /\ panicked' = FALSE
    /\ hist' = HistAway(Ids, "reopened")
    /\ lastOp' = Op0("Other", "ok")
    /\ UNCHANGED <<training, variant, distFnName, paramThreshold, kv, flatCentroids, centroidDists,
                   failures>>

\* ------------------------------------------------------------------------
\* Operations the quantizers delegate to the cache

\* Get of the cache: [ok, point], and the cache afterwards (a point read from
\* the store is admitted)
cache_Get(id) ==
    IF id \in Resident THEN [ok |-> TRUE, point |-> items[id].value, items |-> items]
    ELSE IF ReadFrom(id, kv).ok
    THEN [ok |-> TRUE, point |-> ReadFrom(id, kv).point,
          items |-> [i \in Resident \cup {id} |->
                        IF i = id THEN [value |-> ReadFrom(id, kv).point, IsDirty |-> FALSE]
                        ELSE items[i]]]
    ELSE [ok |-> FALSE, point |-> ReadFrom(id, kv).point, items |-> items]

Get(id) ==
    /\ ~panicked
    /\ items' = cache_Get(id).items
    /\ lastOp' = Op0("Other", "ok")
    /\ UNCHANGED <<training, variant, distFnName, paramThreshold, kv, flatCentroids, centroidDists,
                   threshold, failures, panicked, hist>>

\* Delete evicts from memory and deletes the keys of DeleteFrom from storage
Delete(id) ==
    /\ ~panicked
    /\ kv' = ApplyDeletes(kv, DeleteFrom(id))
    /\ items' = cache_Remove({id})
    /\ hist' = HistDelete(id)
    /\ lastOp' = Op0("Other", "ok")
    /\ UNCHANGED <<training, variant, distFnName, paramThreshold, flatCentroids, centroidDists,
                   threshold, failures, panicked>>

\* size-driven eviction of an entry that is not dirty
Evict(id) ==
    /\ ~panicked
    /\ id \in Resident
    /\ ~IsDirtyEntry(items[id])
    /\ items' = cache_Remove({id})
    /\ hist' = HistAway({id}, "evicted")
    /\ lastOp' = Op0("Other", "ok")
    /\ UNCHANGED <<training, variant, distFnName, paramThreshold, kv, flatCentroids, centroidDists,
                   threshold, failures, panicked>>

\* ------------------------------------------------------------------------
\* Specification

\* the configured thresholds of a binary quantizer: none, or a scalar
ParamThresholds == {Nil, <<6>>}

\* a quantizer of either kind newly constructed on an empty store, with a float
\* kernel of names
InitKernels(names) ==
    /\ variant \in {"pq", "bq"}
    /\ distFnName \in names
    /\ paramThreshold \in IF variant = "pq" THEN {Nil} ELSE ParamThresholds
    /\ items = EmptyMap
    /\ kv = EmptyMap
    /\ flatCentroids = <<>>
    /\ centroidDists = <<>>
    /\ threshold = IF variant = "pq" THEN Nil ELSE BQ_newThreshold(EmptyMap)
    /\ failures = 0
    /\ panicked = FALSE
    /\ lastOp = [op |-> "New", id |-> 0, x |-> <<>>, res |-> "ok", dist |-> 0, afterTrain |-> FALSE]
    /\ hist = [i \in Ids |-> HistNone]
    /\ training = FitIdle

Init == InitKernels({DistanceEuclidean})

Next ==
    \/ \E id \in Ids, vector \in SetVectors : PQ_Set(id, vector)
    \/ PQ_Fit
    \/ PQ_Flush
    \/ PQ_New
    \/ \E id \in Ids, vector \in SetVectors : BQ_Set(id, vector)
    \/ BQ_Fit
    \/ BQ_Flush
    \/ BQ_New
    \/ \E id \in Ids : Get(id)
    \/ \E id \in Ids : Delete(id)
    \/ \E id \in Ids : Evict(id)

Spec == Init /\ [][Next]_vars

\* ------------------------------------------------------------------------
\* Specification of the distance queries: quantizers of every float kernel,
\* set and fit in memory, and queried

\* the codes a point can carry: none, or one of every shape
PQ_Codes == {<<>>} \cup [1..NumSubVectors -> 0..(NumCentroids - 1)]
BQ_Codes == {<<>>} \cup {<<w>> : w \in SUBSET (0..(originalVectorLen - 1))}

\* the points a caller can hand to a distance closure
PQ_QueryPoints ==
    {PQ_Point(0, v, c, FALSE) : v \in Vectors \cup {<<>>}, c \in PQ_Codes}
BQ_QueryPoints ==
    {BQ_Point(0, v, c, FALSE) : v \in Vectors \cup {<<>>}, c \in BQ_Codes}

InitQuery == InitKernels(DistNames)

NextQuery ==
    \/ \E id \in Ids, vector \in SetVectors : PQ_Set(id, vector)
    \/ PQ_Fit
    \/ PQ_New
    \/ \E x \in Vectors, y \in PQ_QueryPoints : PQ_DistanceFromFloatCall(x, y)
    \/ \E id \in Ids, vector \in SetVectors : BQ_Set(id, vector)
    \/ BQ_Fit
    \/ BQ_New
    \/ \E x \in Vectors, y \in BQ_QueryPoints : BQ_DistanceFromFloatCall(x, y)

SpecQuery == InitQuery /\ [][NextQuery]_vars

\* ------------------------------------------------------------------------
\* Specification of encode on its own: a binary quantizer with any threshold,
\* given vectors around the word boundary

EncLens == {1, 2} \cup (63..MaxEncLen)

\* thresholds: none; the same in every dimension; changing with the dimension
EncThresholds ==
    {Nil} \cup {<<[i \in 1..n |-> 12]>> : n \in EncLens}
          \cup {<<[i \in 1..n |-> IF i % 2 = 1 THEN 6 ELSE 12]>> : n \in EncLens}

\* vectors: 12 in every dimension but a, where it is 24, and b, where it is 0
EncVectors ==
    {[i \in 1..n |-> IF i = t[1] THEN 24 ELSE IF i = t[2] THEN 0 ELSE 12] :
        n \in EncLens, t \in (0..MaxEncLen) \X {0, 1, 64, MaxEncLen}}

InitEnc ==
    /\ variant = "bq"
    /\ distFnName = DistanceEuclidean
    /\ paramThreshold = Nil
    /\ items = EmptyMap
    /\ kv = EmptyMap
    /\ flatCentroids = <<>>
    /\ centroidDists = <<>>
    /\ threshold \in EncThresholds
    /\ failures = 0
    /\ panicked = FALSE
    /\ lastOp = [op |-> "New", id |-> 0, x |-> <<>>, res |-> "ok", dist |-> 0, afterTrain |-> FALSE]
    /\ hist = [i \in Ids |-> HistNone]
    /\ training = FitIdle

NextEnc == \E vector \in EncVectors : BQ_encodeCall(vector)

SpecEnc == InitEnc /\ [][NextEnc]_vars

\* ------------------------------------------------------------------------
\* the distance closures over points of both variants

\* a closure of DistanceFromPoint(x) has returned dist for the point y
ReturnedFromPoint(x, y, res, dist) ==
    /\ lastOp' = Op("DistanceFromPoint", y.id, <<x, y>>, res, dist)
    /\ UNCHANGED <<items, flatCentroids, centroidDists, threshold, panicked, hist>>

\* DistanceFromPoint(x)(y)
PQ_DistanceFromPoint(x, y) ==
    IF ~PQ_isPoint(x) \/ ~PQ_isPoint(y) THEN MaxFloat32
    ELSE IF Len(flatCentroids) = 0
    THEN PQ_distFn(x.Vector, y.Vector)
    ELSE SumSeq([i \in 1..NumSubVectors |->
                    centroidDists[centroidDistIdx(i - 1, x.CentroidIds[i], y.CentroidIds[i]) + 1]])

\* the call DistanceFromPoint(x)(y)
PQ_DistanceFromPointCall(x, y) ==
    /\ variant = "pq" /\ ~panicked
    /\ IF ~PQ_isPoint(x) \/ ~PQ_isPoint(y)
       THEN ReturnedFromPoint(x, y, "sentinel", PQ_DistanceFromPoint(x, y))
       ELSE IF Len(flatCentroids) = 0
       THEN IF Len(x.Vector) = Len(y.Vector)
            THEN ReturnedFromPoint(x, y, "ok", PQ_DistanceFromPoint(x, y))
            ELSE \/ PQ_Panic /\ lastOp' = Op("DistanceFromPoint", y.id, <<x, y>>, "panic", 0)
                 \/ \E d \in KernelUndefined : ReturnedFromPoint(x, y, "undefined", d)
       ELSE IF \/ Len(x.CentroidIds) < NumSubVectors
               \/ Len(y.CentroidIds) < NumSubVectors
               \/ Len(centroidDists) < NumSubVectors * NumCentroids * NumCentroids
            THEN \* a code or the table is indexed past its end
                 PQ_Panic /\ lastOp' = Op("DistanceFromPoint", y.id, <<x, y>>, "panic", 0)
            ELSE ReturnedFromPoint(x, y, "ok", PQ_DistanceFromPoint(x, y))
    /\ UNCHANGED <<training, variant, distFnName, paramThreshold, kv, threshold, failures>>

\* DistanceFromPoint(x)(y)
BQ_DistanceFromPoint(x, y) ==
    IF ~BQ_isPoint(x) \/ ~BQ_isPoint(y) THEN MaxFloat32
    ELSE IF threshold # Nil
    THEN hammingDistance(x.BinaryVector, y.BinaryVector)
    ELSE GetFloatDistanceFn(distFnName, x.Vector, y.Vector)

\* the call DistanceFromPoint(x)(y)
BQ_DistanceFromPointCall(x, y) ==
    /\ variant = "bq" /\ ~panicked
    /\ IF ~BQ_isPoint(x) \/ ~BQ_isPoint(y)
       THEN ReturnedFromPoint(x, y, "sentinel", BQ_DistanceFromPoint(x, y))
       ELSE IF \/ threshold # Nil /\ Len(x.BinaryVector) = Len(y.BinaryVector)
               \/ threshold = Nil /\ Len(x.Vector) = Len(y.Vector)
            THEN ReturnedFromPoint(x, y, "ok", BQ_DistanceFromPoint(x, y))
            ELSE \/ Panic /\ lastOp' = Op("DistanceFromPoint", y.id, <<x, y>>, "panic", 0)
                 \/ \E d \in KernelUndefined : ReturnedFromPoint(x, y, "undefined", d)
    /\ UNCHANGED <<training, variant, distFnName, paramThreshold, kv, failures>>

\* the points handed to the closures: of both variants, with and without a
\* vector and a code
ClosurePoints ==
    {PQ_Point(0, v, c, FALSE) :
        v \in SetVectors \cup {<<>>}, c \in {<<>>, [i \in 1..NumSubVectors |-> 0]}}
    \cup {BQ_Point(0, v, c, FALSE) :
        v \in SetVectors \cup {<<>>}, c \in {<<>>, <<{}>>, <<{0}>>}}

NextClosure ==
    \/ \E id \in Ids, vector \in SetVectors : PQ_Set(id, vector)
    \/ PQ_Fit
    \/ \E x \in SetVectors, y \in ClosurePoints : PQ_DistanceFromFloatCall(x, y)
    \/ \E x \in ClosurePoints, y \in ClosurePoints : PQ_DistanceFromPointCall(x, y)
    \/ \E id \in Ids, vector \in SetVectors : BQ_Set(id, vector)
    \/ BQ_Fit
    \/ \E x \in SetVectors, y \in ClosurePoints : BQ_DistanceFromFloatCall(x, y)
    \/ \E x \in ClosurePoints, y \in ClosurePoints : BQ_DistanceFromPointCall(x, y)

SpecClosure == Init /\ [][NextClosure]_vars

\* ------------------------------------------------------------------------
\* the constructor of the product quantizer over its parameters

\* the distance names, the numbers of subvectors and of centroids and the
\* vector lengths a caller passes
NewNames == DistNames \cup {"hamming"}
NewNumSubVectors == 0..MaxNewSubVectors
NewNumCentroids == {1, NumCentroids, MaxCentroids, MaxCentroids + 1}
NewVectorLens == 0..MaxNewVectorLen

\* the checks of newProductQuantizer without the one of the number of centroids
newProductQuantizerChecks_anyCentroids(distName, M, K, vectorLen) ==
    IF M = 0 THEN "panic"
    ELSE IF vectorLen % M # 0 THEN "error"
    ELSE IF distName # DistanceEuclidean /\ distName # DistanceCosine /\ distName # DistanceDot
    THEN "error"
    ELSE "ok"

\* the checks of newProductQuantizer in their order: vectorLen % 0 is an
\* integer division by zero
newProductQuantizerChecks(distName, M, K, vectorLen) ==
    IF M = 0 THEN "panic"
    ELSE IF vectorLen % M # 0 THEN "error"
    ELSE IF distName # DistanceEuclidean /\ distName # DistanceCosine /\ distName # DistanceDot
    THEN "error"
    ELSE IF K > MaxCentroids THEN "error"
    ELSE "ok"

\* newProductQuantizer(storage, distName, {M, K}, vectorLen): variant is "pq"
\* when a quantizer is returned and "none" when nil is
newProductQuantizer(distName, M, K, vectorLen) ==
    \E res \in {newProductQuantizerChecks(distName, M, K, vectorLen)} :
        /\ distFnName' = distName
        /\ lastOp' = Op("newProductQuantizer", 0, <<M, K, vectorLen>>, res, 0)
        /\ variant' = IF res = "ok" THEN "pq" ELSE "none"
        /\ panicked' = (res = "panic")
        /\ items' = EmptyMap
        /\ centroidDists' = IF res = "ok" /\ StorageHas(kv, productQuantizerCentroidDistsKey)
                            THEN BytesToFloat32(kv[productQuantizerCentroidDistsKey]) ELSE <<>>
        /\ flatCentroids' = IF res = "ok" /\ StorageHas(kv, productQuantizerFlatCentroidsKey)
                            THEN BytesToFloat32(kv[productQuantizerFlatCentroidsKey]) ELSE <<>>
        /\ UNCHANGED <<training, paramThreshold, kv, threshold, failures, hist>>

\* the stores a quantizer is constructed on: empty, or with tables flushed
NewStores ==
    {EmptyMap,
     ApplyPuts(EmptyMap,
               <<<<productQuantizerCentroidDistsKey, Float32ToBytes(<<0, 12, 12, 0>>)>>,
                 <<productQuantizerFlatCentroidsKey, Float32ToBytes(<<0, 12>>)>>>>)}

InitNew ==
    /\ variant = "none"
    /\ distFnName = DistanceEuclidean
    /\ paramThreshold = Nil
    /\ items = EmptyMap
    /\ kv \in NewStores
    /\ flatCentroids = <<>>
    /\ centroidDists = <<>>
    /\ threshold = Nil
    /\ failures = 0
    /\ panicked = FALSE
    /\ lastOp = [op |-> "New", id |-> 0, x |-> <<>>, res |-> "ok", dist |-> 0, afterTrain |-> FALSE]
    /\ hist = [i \in Ids |-> HistNone]
    /\ training = FitIdle

NextNew ==
    \E distName \in NewNames, M \in NewNumSubVectors, K \in NewNumCentroids,
       vectorLen \in NewVectorLens : newProductQuantizer(distName, M, K, vectorLen)

SpecNew == InitNew /\ [][NextNew]_vars

\* ------------------------------------------------------------------------
\* productQuantizer.Fit, one step of a trainer goroutine at a time

\* trainer m is the goroutine started with i = m - 1
Trainers == 1..NumSubVectors

\* the memory locations the trainers touch: allVectors[j][c] (c from 1),
\* CentroidIds[i] of the point id (i from 1), flatCentroids[p] and
\* centroidDists[p] (p from 1)
VectorLoc(j, c) == <<"allVectors", j, c>>
CentroidIdLoc(id, i) == <<"CentroidIds", id, i>>
FlatCentroidLoc(p) == <<"flatCentroids", p, 0>>
CentroidDistLoc(p) == <<"centroidDists", p, 0>>

\* Fit up to the start of the trainers: the guards, the ForEach that collects
\* the points and resets their codes, the allocation of the tables
PQ_FitBegin ==
    /\ variant = "pq" /\ ~panicked /\ training.pc = "idle"
    /\ IF ~PQ_FitTrains
       THEN /\ lastOp' = Op0("Fit", "noop")
            /\ UNCHANGED <<items, flatCentroids, centroidDists, hist, training>>
       ELSE \E ord \in Orders(cache_KnownIds) :
            \E loaded \in {cache_ForEach} :
                /\ items' = [i \in DOMAIN loaded |->
                              [loaded[i] EXCEPT !.value.CentroidIds = Zeros(NumSubVectors),
                                                !.value.isDirty = TRUE]]
                /\ flatCentroids' = Zeros(NumSubVectors * NumCentroids * subVectorLen)
                /\ centroidDists' = Zeros(NumSubVectors * NumCentroids * NumCentroids)
                /\ training' = [pc |-> "training",
                                ord |-> ord,
                                allVectors |-> [j \in 1..Len(ord) |-> loaded[ord[j]].value.Vector],
                                trainers |-> [m \in Trainers |-> [pc |-> "kmeans", j |-> 0, k |-> 0]],
                                km |-> [m \in Trainers |-> Nil],
                                writes |-> {},
                                reads |-> {}]
                /\ hist' = HistFit(DOMAIN loaded)
                /\ lastOp' = Op0("Fit", "training")
    /\ UNCHANGED <<variant, distFnName, paramThreshold, kv, threshold, failures, panicked>>

\* one step of trainer m: kmeans.Fit on its window of every vector, then one
\* label, one centroid or one centroid distance stored per step
PQ_Trainer(m) ==
    /\ variant = "pq" /\ ~panicked /\ training.pc = "training"
    /\ LET t == training.trainers[m]
           N == Len(training.ord)
           km == training.km[m]
       IN CASE t.pc = "kmeans" ->
                 IF \E j \in 1..N : Len(training.allVectors[j]) < m * subVectorLen
                 THEN \* a vector is sliced past its end: the process dies
                      /\ PQ_Panic
                      /\ training' = FitIdle
                      /\ lastOp' = Op0("Fit", "panic")
                 ELSE /\ training' =
                           [training EXCEPT
                              !.km[m] = KMeansFit(training.allVectors, NumCentroids,
                                                  (m - 1) * subVectorLen, subVectorLen),
                              !.trainers[m] = [pc |-> "labels", j |-> 0, k |-> 0],
                              !.reads = @ \cup {<<m, VectorLoc(j, c)>> :
                                                   j \in 1..N,
                                                   c \in ((m - 1) * subVectorLen + 1)..(m * subVectorLen)}]
                      /\ UNCHANGED <<items, flatCentroids, centroidDists, panicked, hist, lastOp>>
            [] t.pc = "labels" ->
                 /\ items' = [items EXCEPT
                                ![training.ord[t.j + 1]].value.CentroidIds[m] = km.Labels[t.j + 1] % 256]
                 /\ training' =
                      [training EXCEPT
                         !.trainers[m] = IF t.j + 1 = N THEN [pc |-> "flat", j |-> 0, k |-> 0]
                                         ELSE [t EXCEPT !.j = t.j + 1],
                         !.writes = @ \cup {<<m, CentroidIdLoc(training.ord[t.j + 1], m)>>}]
                 /\ UNCHANGED <<flatCentroids, centroidDists, panicked, hist, lastOp>>
            [] t.pc = "flat" ->
                 LET sl == flatCentroidSlice(m - 1, t.j)
                 IN /\ flatCentroids' =
                         [p \in 1..Len(flatCentroids) |->
                             IF sl.start < p /\ p <= sl.end
                             THEN km.Centroids[t.j + 1][p - sl.start] ELSE flatCentroids[p]]
                    /\ training' =
                         [training EXCEPT
                            !.trainers[m] = IF t.j + 1 = NumCentroids
                                            THEN [pc |-> "dists", j |-> 0, k |-> 0]
                                            ELSE [t EXCEPT !.j = t.j + 1],
                            !.writes = @ \cup {<<m, FlatCentroidLoc(p)>> : p \in (sl.start + 1)..sl.end}]
                    /\ UNCHANGED <<items, centroidDists, panicked, hist, lastOp>>
            [] t.pc = "dists" ->
                 LET idx == centroidDistIdx(m - 1, t.j, t.k)
                 IN /\ centroidDists' =
                         [centroidDists EXCEPT
                            ![idx + 1] = PQ_distFn(km.Centroids[t.j + 1], km.Centroids[t.k + 1])]
                    /\ training' =
                         [training EXCEPT
                            !.trainers[m] = IF t.k + 1 < NumCentroids THEN [t EXCEPT !.k = t.k + 1]
                                            ELSE IF t.j + 1 < NumCentroids
                                            THEN [t EXCEPT !.j = t.j + 1, !.k = 0]
                                            ELSE [pc |-> "done", j |-> 0, k |-> 0],
                            !.writes = @ \cup {<<m, CentroidDistLoc(idx + 1)>>}]
                    /\ UNCHANGED <<items, flatCentroids, panicked, hist, lastOp>>
            [] t.pc = "done" -> FALSE
    /\ UNCHANGED <<variant, distFnName, paramThreshold, kv, threshold, failures>>

\* a join that waits for one trainer only
FitJoined_any == \E m \in Trainers : training.trainers[m].pc = "done"

\* wg.Wait() passes once every trainer has called wg.Done()
FitJoined == \A m \in Trainers : training.trainers[m].pc = "done"

\* Fit returns nil after the join
PQ_FitReturn ==
    /\ variant = "pq" /\ ~panicked /\ training.pc = "training"
    /\ FitJoined
    /\ training' = [training EXCEPT !.pc = "idle"]
    /\ lastOp' = Op0("Fit", "trained")
    /\ UNCHANGED <<variant, distFnName, paramThreshold, items, kv, flatCentroids, centroidDists,
                   threshold, failures, panicked, hist>>

InitTrain == InitKernels({DistanceEuclidean}) /\ variant = "pq"

\* the caller of Fit is blocked while the trainers run
NextTrain ==
    \/ \E id \in Ids, vector \in SetVectors : training.pc = "idle" /\ PQ_Set(id, vector)
    \/ PQ_FitBegin
    \/ \E m \in Trainers : PQ_Trainer(m)
    \/ PQ_FitReturn

SpecTrain == InitTrain /\ [][NextTrain]_vars

\* the scheduler runs every goroutine that can run, and Fit once it can return
SpecTrainFair ==
    /\ InitTrain /\ [][NextTrain]_vars
    /\ \A m \in Trainers : WF_vars(PQ_Trainer(m))
    /\ WF_vars(PQ_FitReturn)

\* ------------------------------------------------------------------------
\* Fit with an iteration that fails

\* the cache after ForEach has visited the ids of visited, leaving them as
\* the entries of after, and has then failed
cache_ForEachFailed(visited, after) ==
    [i \in Resident \cup visited |-> IF i \in visited THEN after[i] ELSE items[i]]

\* the callback of productQuantizer.Fit: a zeroed code, the point dirty
PQ_fitCallback(e) ==
    [e EXCEPT !.value.CentroidIds = Zeros(NumSubVectors), !.value.isDirty = TRUE]

\* the callback of the first pass of binaryQuantizer.Fit changes no point
BQ_fitCallback(e) == e

\* Fit whose ForEach fails on loading the n-th point of its order from the
\* store: the points before it have been visited
PQ_FitFails ==
    /\ variant = "pq" /\ ~panicked
    /\ PQ_FitTrains
    /\ failures < MaxFailures
    /\ \E ord \in Orders(cache_KnownIds) : \E n \in 1..Len(ord) :
          /\ ord[n] \notin Resident
          /\ items' = cache_ForEachFailed({ord[j] : j \in 1..(n - 1)},
                                          [i \in cache_KnownIds |-> PQ_fitCallback(cache_ForEach[i])])
    /\ failures' = failures + 1
    /\ lastOp' = Op0("Fit", "error")
    /\ UNCHANGED <<training, variant, distFnName, paramThreshold, kv, flatCentroids, centroidDists,
                   threshold, panicked, hist>>

\* Fit whose first ForEach fails on loading the n-th point of its order
BQ_FitFails ==
    /\ variant = "bq" /\ ~panicked
    /\ BQ_FitTrains
    /\ failures < MaxFailures
    /\ \E ord \in Orders(cache_KnownIds) : \E n \in 1..Len(ord) :
          /\ ord[n] \notin Resident
          /\ items' = cache_ForEachFailed({ord[j] : j \in 1..(n - 1)},
                                          [i \in cache_KnownIds |-> BQ_fitCallback(cache_ForEach[i])])
    /\ failures' = failures + 1
    /\ lastOp' = Op0("Fit", "error")
    /\ UNCHANGED <<training, variant, distFnName, paramThreshold, kv, flatCentroids, centroidDists,
                   threshold, panicked, hist>>

NextFitFail ==
    \/ \E id \in Ids, vector \in SetVectors : PQ_Set(id, vector)
    \/ PQ_Fit
    \/ PQ_FitFails
    \/ PQ_Flush
    \/ PQ_New
    \/ \E id \in Ids, vector \in SetVectors : BQ_Set(id, vector)
    \/ BQ_Fit
    \/ BQ_FitFails
    \/ BQ_Flush
    \/ BQ_New
    \/ \E id \in Ids : Evict(id)

SpecFitFail == Init /\ [][NextFitFail]_vars

\* ------------------------------------------------------------------------
\* Properties

\* every Put of WriteTo(p) is in the store s
PersistedIn(s, p) ==
    \A i \in 1..Len(WriteTo(p)) :
        /\ StorageHas(s, WriteTo(p)[i][1])
        /\ s[WriteTo(p)[i][1]] = WriteTo(p)[i][2]

\* C1: while the centroid tables are populated (a Fit has trained them, in
\* this life of the quantizer or before a reopen that loaded them), every
\* point Get serves, from memory or from the store, has a code of
\* NumSubVectors entries, each below NumCentroids.
C1_CodesComplete ==
    variant = "pq" /\ ~panicked /\ Len(flatCentroids) # 0
    => \A id \in Ids :
          cache_Get(id).ok
          => /\ Len(cache_Get(id).point.CentroidIds) = NumSubVectors
             /\ \A m \in 1..NumSubVectors :
                   cache_Get(id).point.CentroidIds[m] \in 0..(NumCentroids - 1)

\* C2: a point set, flushed with success and read back after the quantizer was
\* reopened on the same store is found, with the vector it was set with when it
\* was set before Fit, and with the code it was flushed with when it was set
\* after Fit.
C2_PersistenceRoundTrip ==
    variant = "pq" /\ ~panicked
    => \A id \in Ids :
          /\ hist[id].snap # <<>>
          /\ hist[id].away = "reopened"
          /\ hist[id].snapFrom \in {"setUnfit", "setFit"}
          => /\ cache_Get(id).ok
             /\ hist[id].snapFrom = "setUnfit"
                => cache_Get(id).point.Vector = hist[id].snap[1].Vector
             /\ hist[id].snapFrom = "setFit"
                => cache_Get(id).point.CentroidIds = hist[id].snap[1].Code

\* C3: the two centroid tables are both absent or both present with lengths
\* NumSubVectors * NumCentroids * subVectorLen and NumSubVectors * NumCentroids^2,
\* in memory and under their keys in the store.
C3_TablesTogether ==
    variant = "pq"
    => /\ \/ Len(flatCentroids) = 0 /\ Len(centroidDists) = 0
          \/ /\ Len(flatCentroids) = NumSubVectors * NumCentroids * subVectorLen
             /\ Len(centroidDists) = NumSubVectors * NumCentroids * NumCentroids
       /\ \/ /\ ~StorageHas(kv, productQuantizerFlatCentroidsKey)
             /\ ~StorageHas(kv, productQuantizerCentroidDistsKey)
          \/ /\ StorageHas(kv, productQuantizerFlatCentroidsKey)
             /\ StorageHas(kv, productQuantizerCentroidDistsKey)
             /\ Len(BytesToFloat32(kv[productQuantizerFlatCentroidsKey]))
                  = NumSubVectors * NumCentroids * subVectorLen
             /\ Len(BytesToFloat32(kv[productQuantizerCentroidDistsKey]))
                  = NumSubVectors * NumCentroids * NumCentroids

\* C4: a Fit that directly follows a Fit that trained returns without training
\* and leaves the tables, the threshold, every point (code and dirty flag) and
\* the store as they were.
C4_FitIdempotent ==
    [][lastOp.op = "Fit" /\ lastOp.res = "trained" /\ lastOp'.op = "Fit"
       => /\ lastOp'.res = "noop"
          /\ UNCHANGED <<items, kv, flatCentroids, centroidDists, threshold, panicked>>]_vars

\* a second Fit has run directly after a Fit that trained
C4_Witness ==
    lastOp.op = "Fit" /\ lastOp.res = "noop" /\ lastOp.afterTrain

StoredCode(id) ==
    IF variant = "pq" THEN kv[NodeKey(id, "q")] ELSE BytesToEdgeList(kv[NodeKey(id, "q")])

C8_DeleteRemovesBothKeys ==
    \A id \in Ids :
        hist[id].mem = "deleted"
        => /\ ~StorageHas(kv, NodeKey(id, "v"))
           /\ ~StorageHas(kv, NodeKey(id, "q"))
           /\ id \notin Resident
           /\ ~panicked => ~cache_Get(id).ok

\* a point flushed with its code was deleted and the quantizer reopened;
\* another id was deleted that no Flush had written
C8_Witness ==
    /\ \E id \in Ids :
          /\ hist[id].mem = "deleted"
          /\ hist[id].snapFrom = "flushedCode"
          /\ hist[id].away = "reopened"
    /\ \E id \in Ids :
          hist[id].mem = "deleted" /\ hist[id].snapFrom = "none"

\* C9: when Flush returns an error, every point that was dirty before it and
\* whose keys it did not write is still dirty after it.
C9_FailedFlushKeepsDirty ==
    [][lastOp'.op = "Flush" /\ lastOp'.res = "error"
       => \A id \in Resident :
             IsDirtyEntry(items[id])
             => \/ id \in DOMAIN items' /\ IsDirtyEntry(items'[id])
                \/ PersistedIn(kv', items[id].value)]_vars

\* C6 as stated: a distance the unfit quantizer returned for the query x and
\* the point y is the configured float kernel of x and the vector of y.
C6_ConfiguredKernel ==
    /\ lastOp.op = "DistanceFromFloat" /\ lastOp.res = "ok"
    /\ \/ variant = "pq" /\ Len(flatCentroids) = 0
       \/ variant = "bq" /\ threshold = Nil
    => lastOp.dist = GetFloatDistanceFn(distFnName, lastOp.x[1], lastOp.x[2])

\* C6: a distance the unfit quantizer returned for the query x and the point y
\* is the float kernel of x and the vector of y, the kernel being the
\* configured one for the binary quantizer and for the product quantizer
\* configured with euclidean or dot, and the Euclidean one for the product
\* quantizer configured with cosine.
C6_QuantizerKernel ==
    /\ lastOp.op = "DistanceFromFloat" /\ lastOp.res = "ok"
    /\ \/ variant = "pq" /\ Len(flatCentroids) = 0
       \/ variant = "bq" /\ threshold = Nil
    => lastOp.dist =
          GetFloatDistanceFn(IF variant = "pq" /\ distFnName = DistanceCosine
                             THEN DistanceEuclidean ELSE distFnName,
                             lastOp.x[1], lastOp.x[2])

\* an unfit product quantizer configured with cosine has answered a query with
\* a distance that is not the cosine distance
C6_Witness ==
    /\ lastOp.op = "DistanceFromFloat" /\ lastOp.res = "ok"
    /\ variant = "pq" /\ Len(flatCentroids) = 0
    /\ distFnName = DistanceCosine
    /\ lastOp.dist # GetFloatDistanceFn(DistanceCosine, lastOp.x[1], lastOp.x[2])

\* C10: with a threshold set, encode of a vector of length D returns
\* ceil(D / 64) words; for every i < D, bit i mod 64 of word i div 64 is set
\* exactly when vector[i] > threshold[i]; no bit at a position from D on is set.
\* With no threshold set it returns nil.
C10_EncodeBits ==
    lastOp.op = "encode" /\ lastOp.res = "ok"
    => IF threshold = Nil THEN lastOp.x[2] = <<>>
       ELSE /\ Len(lastOp.x[2]) = (Len(lastOp.x[1]) + 63) \div 64
            /\ \A i \in 0..(Len(lastOp.x[1]) - 1) :
                  (i % 64) \in lastOp.x[2][(i \div 64) + 1]
                  <=> lastOp.x[1][i + 1] > threshold[1][i + 1]
            /\ \A w \in 1..Len(lastOp.x[2]) :
                  \A bit \in lastOp.x[2][w] :
                      bit \in 0..63 /\ (w - 1) * 64 + bit < Len(lastOp.x[1])

\* a vector of 65 dimensions was encoded into two words: its last dimension is
\* above the threshold, another one equals it
C10_Witness ==
    /\ lastOp.op = "encode" /\ lastOp.res = "ok"
    /\ threshold # Nil
    /\ Len(lastOp.x[1]) = 65
    /\ Len(lastOp.x[2]) = 2
    /\ 0 \in lastOp.x[2][2]
    /\ \E i \in 1..64 : lastOp.x[1][i] = threshold[1][i] /\ (i - 1) \notin lastOp.x[2][1]

\* the sum of dimension i over the points of ps that have it
DimSum(ps, i) ==
    LET ord == CHOOSE o \in Orders(DOMAIN ps) : TRUE
    IN SumSeq([j \in 1..Len(ord) |->
                  IF i <= Len(ps[ord[j]].value.Vector) THEN ps[ord[j]].value.Vector[i] ELSE 0])

\* C11: a Fit of the binary quantizer that trains leaves a threshold that
\* covers every dimension a known point has and is, in each dimension, the sum
\* of that dimension over the points known to the cache divided by their
\* number; every such point is then in memory with its vector unchanged, with
\* binary_vector = encode(vector) under that threshold, and dirty.
C11_FitMeanThreshold ==
    [][variant = "bq" /\ lastOp'.op = "Fit" /\ lastOp'.res = "trained"
       => /\ threshold = Nil /\ cache_Count >= TriggerThreshold
          /\ threshold' # Nil
          /\ \A id \in cache_KnownIds :
                Len(cache_ForEach[id].value.Vector) <= Len(threshold'[1])
          /\ \A i \in 1..Len(threshold'[1]) :
                threshold'[1][i] = DimSum(cache_ForEach, i) \div cache_Count
          /\ \A id \in cache_KnownIds :
                /\ id \in DOMAIN items'
                /\ items'[id].value.Vector = cache_ForEach[id].value.Vector
                /\ items'[id].value.BinaryVector
                     = BQ_encode(threshold', items'[id].value.Vector)
                /\ items'[id].value.isDirty]_vars

\* Fit has trained the threshold 6 from the vectors of 0 and of 12, whose
\* codes have no bit and every bit set
C11_Witness ==
    /\ variant = "bq"
    /\ lastOp.op = "Fit" /\ lastOp.res = "trained"
    /\ threshold = <<[i \in 1..originalVectorLen |-> 6]>>
    /\ \E a, b \in Resident :
          /\ items[a].value.BinaryVector = <<{}>>
          /\ items[b].value.BinaryVector = <<0..(originalVectorLen - 1)>>

\* C12: newProductQuantizer returns an error and no quantizer, and the store
\* is as it was, whenever the vector length is not a multiple of the number
\* of subvectors, or the distance name is none of euclidean, cosine and dot,
\* or the number of centroids is above 256.
C12_ConstructorRejects ==
    [][lastOp'.op = "newProductQuantizer"
       => LET M == lastOp'.x[1]
              K == lastOp'.x[2]
              D == lastOp'.x[3]
          IN  (M > 0 /\ (D % M # 0 \/ distFnName' \notin {"euclidean", "cosine", "dot"} \/ K > 256))
              => /\ lastOp'.res = "error"
                 /\ variant' = "none"
                 /\ flatCentroids' = <<>> /\ centroidDists' = <<>>
                 /\ kv' = kv]_vars

\* 257 centroids, a known name and a length the subvectors divide, on a store
\* that holds tables: rejected
C12_Witness ==
    /\ lastOp.op = "newProductQuantizer" /\ lastOp.res = "error"
    /\ lastOp.x = <<2, 257, 4>>
    /\ distFnName = "dot"
    /\ variant = "none"
    /\ StorageHas(kv, productQuantizerFlatCentroidsKey)

\* C13: newProductQuantizer with a vector length of 0 and an otherwise valid
\* configuration returns an error.
C13_ZeroDimensionsRejected ==
    [][(/\ lastOp'.op = "newProductQuantizer"
        /\ lastOp'.x[3] = 0
        /\ lastOp'.x[1] > 0 /\ lastOp'.x[2] <= 256
        /\ distFnName' \in {"euclidean", "cosine", "dot"})
       => lastOp'.res = "error" /\ variant' = "none"]_vars

\* C14: a closure of DistanceFromFloat called on a point y of the other
\* variant, and a closure of DistanceFromPoint whose reference point x or whose
\* point y is of the other variant, returns the sentinel distance MaxFloat32
\* and the process goes on, whether the quantizer is fit or not.
C14_ForeignPointSentinel ==
    /\ (lastOp.op = "DistanceFromFloat" /\ Len(lastOp.x) = 4 /\ lastOp.x[4] # variant)
       => lastOp.res = "sentinel" /\ lastOp.dist = MaxFloat32 /\ ~panicked
    /\ (/\ lastOp.op = "DistanceFromPoint"
        /\ \E i \in 1..2 : (IF "CentroidIds" \in DOMAIN lastOp.x[i] THEN "pq" ELSE "bq") # variant)
       => lastOp.res = "sentinel" /\ lastOp.dist = MaxFloat32 /\ ~panicked

\* a fit product quantizer has answered DistanceFromPoint for one of its own
\* points as reference and a point of the binary quantizer
C14_Witness ==
    /\ variant = "pq" /\ Len(flatCentroids) # 0
    /\ lastOp.op = "DistanceFromPoint" /\ lastOp.res = "sentinel"
    /\ "CentroidIds" \in DOMAIN lastOp.x[1]
    /\ "BinaryVector" \in DOMAIN lastOp.x[2]

\* entry [m, a, b] of the table of a fit product quantizer
CentroidDistAt(m, a, b) ==
    centroidDists[m * NumCentroids * NumCentroids + a * NumCentroids + b + 1]

\* C15 as claimed: in the table of a fit product quantizer, whatever the
\* accepted distance name, every entry is non-negative, entry [m, a, b] equals
\* entry [m, b, a], and with the Euclidean kernel entry [m, a, a] is 0.
C15_NonNegativeSymmetric ==
    (variant = "pq" /\ Len(centroidDists) # 0)
    => \A m \in 0..(NumSubVectors - 1) : \A a, b \in 0..(NumCentroids - 1) :
          /\ CentroidDistAt(m, a, b) >= 0
          /\ CentroidDistAt(m, a, b) = CentroidDistAt(m, b, a)
          /\ (distFnName # DistanceDot) => CentroidDistAt(m, a, a) = 0

\* C15: in the table of a fit product quantizer entry [m, a, b] equals entry
\* [m, b, a] for every accepted distance name; for the names euclidean and
\* cosine, which both run the Euclidean kernel, every entry is non-negative and
\* entry [m, a, a] is 0.
C15_SymmetricEuclideanNonNegative ==
    (variant = "pq" /\ Len(centroidDists) # 0)
    => \A m \in 0..(NumSubVectors - 1) : \A a, b \in 0..(NumCentroids - 1) :
          /\ CentroidDistAt(m, a, b) = CentroidDistAt(m, b, a)
          /\ (distFnName \in {DistanceEuclidean, DistanceCosine})
             => CentroidDistAt(m, a, b) >= 0 /\ CentroidDistAt(m, a, a) = 0

\* a product quantizer configured with cosine has been fit on two distinct
\* vectors: the two centroids of a subvector are at a positive distance
C15_Witness ==
    /\ variant = "pq" /\ distFnName = DistanceCosine
    /\ lastOp.op = "Fit" /\ lastOp.res = "trained"
    /\ Len(centroidDists) = NumSubVectors * NumCentroids * NumCentroids
    /\ CentroidDistAt(0, 0, 1) > 0
    /\ CentroidDistAt(0, 0, 1) = CentroidDistAt(0, 1, 0)
    /\ CentroidDistAt(0, 1, 1) = 0

\* C16: ForEach visits every id that is resident or has a key in the store,
\* the ids whose only key is ('q', id) included.
C16_ForEachVisitsAll ==
    \A id \in Ids :
        (\/ id \in Resident
         \/ StorageHas(kv, NodeKey(id, "v"))
         \/ StorageHas(kv, NodeKey(id, "q")))
        => id \in DOMAIN cache_ForEach

\* C17: while Fit trains, under every interleaving of the trainers, no
\* location is written by two trainers, no trainer reads a location another
\* writes, and trainer i writes only flatCentroids[i*K*d_sub, (i+1)*K*d_sub),
\* centroidDists[i*K*K, (i+1)*K*K) and element i of the points' CentroidIds.
C17_TrainersDisjoint ==
    /\ \A w1, w2 \in training.writes : w1[2] = w2[2] => w1[1] = w2[1]
    /\ \A r \in training.reads : \A w \in training.writes : r[2] = w[2] => r[1] = w[1]
    /\ \A w \in training.writes :
          LET i == w[1] - 1
              loc == w[2]
          IN \/ /\ loc[1] = "flatCentroids"
                /\ i * NumCentroids * subVectorLen <= loc[2] - 1
                /\ loc[2] - 1 < (i + 1) * NumCentroids * subVectorLen
             \/ /\ loc[1] = "centroidDists"
                /\ i * NumCentroids * NumCentroids <= loc[2] - 1
                /\ loc[2] - 1 < (i + 1) * NumCentroids * NumCentroids
             \/ /\ loc[1] = "CentroidIds"
                /\ loc[3] - 1 = i

\* every trainer has finished: each has written its labels, its centroids and
\* its centroid distances, and has read its window of every vector
C17_Witness ==
    /\ training.pc = "training"
    /\ \A m \in Trainers : training.trainers[m].pc = "done"
    /\ \A m \in Trainers :
          /\ Cardinality({w \in training.writes : w[1] = m})
               = Len(training.ord) + NumCentroids * subVectorLen + NumCentroids * NumCentroids
          /\ Cardinality({r \in training.reads : r[1] = m}) = Len(training.ord) * subVectorLen

\* C18: when Fit returns after training every trainer has finished, the
\* tables hold the centroids and the centroid distances of every subvector and
\* every point the label of every subvector; and with every trainer and the
\* join scheduled fairly a training Fit eventually returns (or the process has
\* died on a panic).
C18_FitReturnsAfterJoin ==
    /\ []((lastOp.op = "Fit" /\ lastOp.res = "trained")
          => LET km == [m \in Trainers |->
                           KMeansFit(training.allVectors, NumCentroids,
                                     (m - 1) * subVectorLen, subVectorLen)]
             IN /\ \A m \in Trainers : training.trainers[m].pc = "done"
                /\ flatCentroids = PQ_trainFlat(km)
                /\ centroidDists = PQ_trainDists(km)
                /\ \A j \in 1..Len(training.ord) :
                      items[training.ord[j]].value.CentroidIds
                        = [m \in Trainers |-> km[m].Labels[j]])
    /\ (training.pc = "training") ~> ((lastOp.op = "Fit" /\ lastOp.res = "trained") \/ panicked)

\* Fit has returned after training two points with different vectors
C18_Witness ==
    /\ lastOp.op = "Fit" /\ lastOp.res = "trained"
    /\ training.pc = "idle" /\ Len(training.ord) >= 2
    /\ \E a, b \in Resident :
          items[a].value.CentroidIds # items[b].value.CentroidIds

\* C19: a Fit that returns an error because the iteration failed leaves the
\* quantizer unfit and changes the code and the dirty flag of no point that
\* was in memory; a Fit that trains leaves every known point in memory with a
\* code and dirty.
C19_FitAtomic ==
    [][/\ (lastOp'.op = "Fit" /\ lastOp'.res = "error")
          => /\ Len(flatCentroids') = 0 /\ threshold' = threshold
             /\ variant = "bq" => threshold' = Nil
             /\ \A id \in Resident :
                   /\ id \in DOMAIN items'
                   /\ Code(items'[id].value) = Code(items[id].value)
                   /\ items'[id].value.isDirty = items[id].value.isDirty
       /\ (lastOp'.op = "Fit" /\ lastOp'.res = "trained")
          => \A id \in cache_KnownIds :
                /\ id \in DOMAIN items'
                /\ items'[id].value.isDirty
                /\ variant = "pq" => Len(items'[id].value.CentroidIds) = NumSubVectors
                /\ variant = "bq" => items'[id].value.BinaryVector
                                       = BQ_encode(threshold', items'[id].value.Vector)]_vars

\* the keys of the tables
TableKeys ==
    {productQuantizerCentroidDistsKey, productQuantizerFlatCentroidsKey,
     binaryQuantizerThresholdKey}

\* the part of the store s under the table keys
TablePart(s) == [k \in TableKeys \cap DOMAIN s |-> s[k]]

\* C20: a Flush whose cache flush fails writes no table key; a Flush of an
\* unfit quantizer (tables or threshold empty) writes no table key; a Flush
\* that succeeds on a fit quantizer leaves the centroid distances and the flat
\* centroids, or the threshold, under their keys.
C20_FlushCacheThenTables ==
    [][lastOp'.op = "Flush"
       => LET fitted == IF variant = "pq" THEN Len(flatCentroids) # 0
                        ELSE threshold # Nil /\ Len(threshold[1]) > 0
          IN /\ lastOp'.x[1] = "cache failed" => TablePart(kv') = TablePart(kv)
             /\ ~fitted => TablePart(kv') = TablePart(kv)
             /\ (fitted /\ lastOp'.res = "ok")
                => /\ lastOp'.x[1] = "cache flushed"
                   /\ IF variant = "pq"
                      THEN /\ StorageHas(kv', productQuantizerCentroidDistsKey)
                           /\ StorageHas(kv', productQuantizerFlatCentroidsKey)
                           /\ kv'[productQuantizerCentroidDistsKey] = Float32ToBytes(centroidDists)
                           /\ kv'[productQuantizerFlatCentroidsKey] = Float32ToBytes(flatCentroids)
                      ELSE /\ StorageHas(kv', binaryQuantizerThresholdKey)
                           /\ kv'[binaryQuantizerThresholdKey] = Float32ToBytes(threshold[1])]_vars

\* the cache flush of a fit product quantizer has failed and the store holds
\* no table
C20_Witness ==
    /\ variant = "pq" /\ Len(flatCentroids) # 0
    /\ lastOp.op = "Flush" /\ lastOp.res = "error"
    /\ lastOp.x[1] = "cache failed"
    /\ TablePart(kv) = EmptyMap

\* centroid a of subvector m in the flat table, both counted from 0
CentroidAt(m, a) ==
    SubSeq(flatCentroids, (m * NumCentroids + a) * subVectorLen + 1,
           (m * NumCentroids + a + 1) * subVectorLen)

\* the lowest index among the centroids of subvector m nearest to sub in
\* Euclidean distance
EuclideanArgmin(m, sub) ==
    CHOOSE a \in 0..(NumCentroids - 1) :
        \A b \in 0..(NumCentroids - 1) :
            \/ squaredEuclidean(sub, CentroidAt(m, a)) < squaredEuclidean(sub, CentroidAt(m, b))
            \/ /\ squaredEuclidean(sub, CentroidAt(m, a)) = squaredEuclidean(sub, CentroidAt(m, b))
               /\ a <= b

\* C21: whatever the accepted distance name, a Set on a fit product quantizer
\* stores as the code of the vector, for each subvector m, the lowest index
\* among the centroids at minimal Euclidean distance to that subvector.
C21_EncodeEuclideanArgmin ==
    [][(variant = "pq" /\ Len(flatCentroids) # 0 /\ flatCentroids' = flatCentroids)
       => \A id \in DOMAIN items' :
             (id \notin DOMAIN items \/ items'[id] # items[id])
             => /\ Len(items'[id].value.Vector) = originalVectorLen
                /\ items'[id].value.CentroidIds
                     = [m \in 1..NumSubVectors |->
                           EuclideanArgmin(m - 1,
                               SubSeq(items'[id].value.Vector,
                                      (m - 1) * subVectorLen + 1, m * subVectorLen))]]_vars

\* the kernel a product quantizer runs: the Euclidean one for the names
\* euclidean and cosine, the dot one for dot
QuantizerKernel(a, b) ==
    GetFloatDistanceFn(IF distFnName = DistanceCosine THEN DistanceEuclidean ELSE distFnName, a, b)

\* C22: on a fit product quantizer DistanceFromFloat(x)(y), for a query x of
\* length D and a point y of the quantizer with a code of length M, returns
\* the sum over the subvectors m of the kernel of x[m*d_sub, (m+1)*d_sub) and
\* the centroid y.CentroidIds[m] of m in the tables of the call, whatever the
\* vector of y is.
C22_AsymmetricTableSum ==
    [][(/\ variant = "pq" /\ Len(flatCentroids) # 0
        /\ lastOp'.op = "DistanceFromFloat" /\ lastOp' # lastOp
        /\ Len(lastOp'.x) = 4
        /\ lastOp'.x[4] = "pq"
        /\ Len(lastOp'.x[1]) = originalVectorLen
        /\ Len(lastOp'.x[3]) = NumSubVectors)
       => /\ lastOp'.res = "ok"
          /\ lastOp'.dist
               = SumSeq([m \in 1..NumSubVectors |->
                            QuantizerKernel(
                                SubSeq(lastOp'.x[1], (m - 1) * subVectorLen + 1, m * subVectorLen),
                                CentroidAt(m - 1, lastOp'.x[3][m]))])]_vars

\* a fit product quantizer has answered a query for a point that has a code
\* and no vector with a distance that is not 0
C22_Witness ==
    /\ variant = "pq" /\ Len(flatCentroids) # 0
    /\ lastOp.op = "DistanceFromFloat" /\ lastOp.res = "ok"
    /\ Len(lastOp.x) = 4
    /\ lastOp.x[2] = <<>>
    /\ Len(lastOp.x[3]) = NumSubVectors
    /\ lastOp.dist # 0

\* C23: while the product quantizer is unfit, a closure of DistanceFromFloat
\* or of DistanceFromPoint called on a point y of the quantizer that has no
\* raw vector returns the sentinel distance MaxFloat32, and the process goes on.
C23_UnfitMissingVectorSentinel ==
    [][(/\ variant = "pq" /\ Len(flatCentroids) = 0
        /\ lastOp' # lastOp
        /\ \/ /\ lastOp'.op = "DistanceFromFloat"
              /\ Len(lastOp'.x) = 4
              /\ lastOp'.x[4] = "pq"
              /\ lastOp'.x[2] = <<>>
           \/ /\ lastOp'.op = "DistanceFromPoint"
              /\ "CentroidIds" \in DOMAIN lastOp'.x[1]
              /\ "CentroidIds" \in DOMAIN lastOp'.x[2]
              /\ lastOp'.x[2].Vector = <<>>)
       => /\ ~panicked'
          /\ lastOp'.res # "panic"
          /\ lastOp'.dist = MaxFloat32]_vars

\* C24: whenever Fit of the product quantizer passes its preconditions and
\* trains, every point ForEach hands it has a raw vector of length D.
C24_FitCollectsRawVectors ==
    [][(/\ variant = "pq" /\ ~panicked
        /\ PQ_FitTrains
        /\ lastOp'.op = "Fit" /\ lastOp' # lastOp)
       => \A id \in cache_KnownIds :
             Len(cache_ForEach[id].value.Vector) = originalVectorLen]_vars

\* ------------------------------------------------------------------------
\* Specification of the distances across a reopen: a product quantizer on a
\* store that does not fail, set, fit, flushed and reopened, its cached points
\* loaded again and handed to the distance closures

\* DistanceFromFloat(x) applied to the cached point of id
PQ_DistanceFromFloatCached(x, id) ==
    /\ id \in Resident
    /\ PQ_DistanceFromFloatCall(x, items[id].value)

\* DistanceFromPoint(p) of the cached point of pid applied to the cached point of id
PQ_DistanceFromPointCached(pid, id) ==
    /\ pid \in Resident /\ id \in Resident
    /\ PQ_DistanceFromPointCall(items[pid].value, items[id].value)

InitReload ==
    /\ variant = "pq"
    /\ distFnName \in DistNames
    /\ paramThreshold = Nil
    /\ items = EmptyMap
    /\ kv = EmptyMap
    /\ flatCentroids = <<>>
    /\ centroidDists = <<>>
    /\ threshold = Nil
    /\ failures = MaxFailures
    /\ panicked = FALSE
    /\ lastOp = [op |-> "New", id |-> 0, x |-> <<>>, res |-> "ok", dist |-> 0, afterTrain |-> FALSE]
    /\ hist = [i \in Ids |-> HistNone]
    /\ training = FitIdle

NextReload ==
    \/ \E id \in Ids, vector \in SetVectors : PQ_Set(id, vector)
    \/ PQ_Fit
    \/ PQ_Flush
    \/ PQ_New
    \/ \E id \in Ids : Get(id)
    \/ \E x \in SetVectors, id \in Ids : PQ_DistanceFromFloatCached(x, id)
    \/ \E pid \in Ids, id \in Ids : PQ_DistanceFromPointCached(pid, id)

SpecReload == InitReload /\ [][NextReload]_vars

\* the point of id was flushed whole with its raw vector, the store was
\* reopened since, and the cached point of id is the one loaded again from
\* its code key alone
ReloadedFromCode(id) ==
    /\ id \in Resident
    /\ hist[id].snap # <<>> /\ hist[id].away = "reopened"
    /\ Len(hist[id].snap[1].Vector) = originalVectorLen
    /\ Len(items[id].value.Vector) = 0
    /\ Len(items[id].value.CentroidIds) = NumSubVectors

\* the resident point of id as the last Flush wrote it
FlushedPoint(id) ==
    PQ_Point(id, hist[id].snap[1].Vector, hist[id].snap[1].Code, FALSE)

\* C25: on a fit product quantizer whose state was flushed, a reopen keeps
\* the tables, and the closures of DistanceFromFloat(x) and
\* DistanceFromPoint(p) return for the point of an id loaded again after the
\* reopen from its code key alone the distance of the resident point of that
\* id, which had vector and code
C25_ReloadedSameDistance ==
    [][/\ (/\ variant = "pq" /\ Len(flatCentroids) # 0
            /\ lastOp.op = "Flush" /\ lastOp.res = "ok")
           => (flatCentroids' = flatCentroids /\ centroidDists' = centroidDists)
       /\ (/\ variant = "pq" /\ Len(flatCentroids) # 0
            /\ lastOp'.op = "DistanceFromFloat"
            /\ lastOp'.id \in Ids
            /\ ReloadedFromCode(lastOp'.id))
           => /\ lastOp'.x[2] = <<>>
              /\ lastOp'.res = "ok"
              /\ lastOp'.dist = PQ_DistanceFromFloat(lastOp'.x[1], FlushedPoint(lastOp'.id))
       /\ (/\ variant = "pq" /\ Len(flatCentroids) # 0
            /\ lastOp'.op = "DistanceFromPoint"
            /\ lastOp'.id \in Ids
            /\ ReloadedFromCode(lastOp'.id)
            /\ ReloadedFromCode(lastOp'.x[1].id))
           => /\ lastOp'.x[2].Vector = <<>>
              /\ lastOp'.res = "ok"
              /\ lastOp'.dist = PQ_DistanceFromPoint(FlushedPoint(lastOp'.x[1].id),
                                                      FlushedPoint(lastOp'.id))]_vars

\* a fit quantizer, flushed and reopened, answered for a point loaded from its
\* code key alone with the distance of the resident point, which is not zero
C25_Witness ==
    /\ variant = "pq" /\ Len(flatCentroids) # 0
    /\ StorageHas(kv, productQuantizerFlatCentroidsKey)
    /\ kv[productQuantizerFlatCentroidsKey] = Float32ToBytes(flatCentroids)
    /\ lastOp.op = "DistanceFromFloat" /\ lastOp.res = "ok" /\ lastOp.id \in Ids
    /\ ReloadedFromCode(lastOp.id)
    /\ lastOp.x[2] = <<>> /\ lastOp.x[3] = hist[lastOp.id].snap[1].Code
    /\ lastOp.dist = PQ_DistanceFromFloat(lastOp.x[1], FlushedPoint(lastOp.id))
    /\ lastOp.dist # 0

\* C26: every resident point of a binary quantizer that has both a raw vector
\* and a binary vector has the binary vector encode gives its raw vector
\* under the current threshold; while the threshold is unset, every point
\* that Set created has no binary vector.
C26_CodeMatchesThreshold ==
    variant = "bq" =>
        \A id \in Resident :
            /\ (Len(items[id].value.Vector) # 0 /\ Len(items[id].value.BinaryVector) # 0)
               => /\ threshold # Nil
                  /\ items[id].value.BinaryVector = BQ_encode(threshold, items[id].value.Vector)
            /\ (threshold = Nil /\ hist[id].mem \in {"setUnfit", "setFit"})
               => Len(items[id].value.BinaryVector) = 0

\* a quantizer that Fit gave its threshold holds a point encoded by Fit and a
\* point encoded by a Set since, both with bits set
C26_Witness ==
    /\ variant = "bq" /\ paramThreshold = Nil /\ threshold # Nil
    /\ \E id \in Resident, other \in Resident :
        /\ hist[id].mem = "setFit" /\ hist[other].mem # "setFit"
        /\ Len(items[id].value.Vector) # 0 /\ Len(items[other].value.Vector) # 0
        /\ items[id].value.BinaryVector = BQ_encode(threshold, items[id].value.Vector)
        /\ items[other].value.BinaryVector = BQ_encode(threshold, items[other].value.Vector)
        /\ items[id].value.BinaryVector[1] # {}
        /\ items[other].value.BinaryVector[1] # {}

\* ------------------------------------------------------------------------
\* models.Query.Validate: a search query checked against the schema of an
\* index, a pure function: the query and the schema are drawn at the start
\* and Validate is applied to them. An unset option (a nil pointer) is <<>>, a set one <<options>>; the
\* index types and the operators are the strings of their constants.

MaxVectorSize == 2

\* uuid.Parse(s) succeeds; "uuid" stands for the well-formed strings
uuid_Parse(s) == s = "uuid"

\* Validate that only looks the property up in the schema
Validate_schemaOnly(q, schema) ==
    IF q.Property \in {"_and", "_or", "_id"} \/ q.Property \in DOMAIN schema
    THEN "nil" ELSE "error"

\* q.Validate(schema): "nil" or "error"
RECURSIVE Validate(_, _)
Validate(q, schema) ==
    LET \* the first error of the sub-queries qs, nil when there is none
        first(qs) ==
            LET bad == {i \in 1..Len(qs) : Validate(qs[i], schema) # "nil"}
            IN IF bad = {} THEN "nil"
               ELSE Validate(qs[CHOOSE i \in bad : \A j \in bad : i <= j], schema)
    IN
    IF q.Property = "_and" THEN first(q.And)
    ELSE IF q.Property = "_or" THEN first(q.Or)
    ELSE IF q.Property = "_id"
    THEN IF q.String # <<>>
         THEN IF q.String[1].Operator # "equals" THEN "error"
              ELSE IF ~uuid_Parse(q.String[1].Value) THEN "error"
              ELSE "nil"
         ELSE IF q.StringArray # <<>>
         THEN IF q.StringArray[1].Operator # "containsAny" THEN "error"
              ELSE IF \E i \in 1..Len(q.StringArray[1].Value) :
                         ~uuid_Parse(q.StringArray[1].Value[i])
              THEN "error"
              ELSE "nil"
         ELSE "error"
    ELSE IF q.Property \notin DOMAIN schema THEN "error"
    ELSE LET value == schema[q.Property]
         IN IF value.Type = "vectorFlat"
            THEN IF q.VectorFlat = <<>> THEN "error"
                 ELSE IF Len(q.VectorFlat[1].Vector) # value.VectorFlat[1].VectorSize
                 THEN "error"
                 ELSE IF q.VectorFlat[1].Filter # <<>>
                 THEN Validate(q.VectorFlat[1].Filter[1], schema)
                 ELSE "nil"
            ELSE IF value.Type = "text"
            THEN IF q.Text = <<>> THEN "error"
                 ELSE IF q.Text[1].Filter # <<>>
                 THEN Validate(q.Text[1].Filter[1], schema)
                 ELSE "nil"
            ELSE IF value.Type = "string"
            THEN IF q.String = <<>> THEN "error" ELSE "nil"
            ELSE IF value.Type = "stringArray"
            THEN IF q.StringArray = <<>> THEN "error" ELSE "nil"
            ELSE IF value.Type = "integer"
            THEN IF q.Integer = <<>> THEN "error" ELSE "nil"
            ELSE IF value.Type = "float"
            THEN IF q.Float = <<>> THEN "error" ELSE "nil"
            ELSE "error"

\* the queries without sub-queries or filter: a property name and at most one
\* option set
LeafQueries ==
    LET none(p) ==
            [Property |-> p, VectorFlat |-> <<>>, VectorVamana |-> <<>>, Text |-> <<>>,
             String |-> <<>>, Integer |-> <<>>, Float |-> <<>>, StringArray |-> <<>>,
             And |-> <<>>, Or |-> <<>>]
        options(b) ==
            {b}
            \cup {[b EXCEPT !.VectorFlat = <<[Vector |-> Zeros(n), Filter |-> <<>>]>>] :
                     n \in 1..MaxVectorSize}
            \cup {[b EXCEPT !.VectorVamana = <<[Vector |-> Zeros(1)]>>]}
            \cup {[b EXCEPT !.Text = <<[Value |-> "word", Filter |-> <<>>]>>]}
            \cup {[b EXCEPT !.String = <<[Operator |-> o, Value |-> v]>>] :
                     o \in {"equals", "notEquals"}, v \in {"uuid", "word"}}
            \cup {[b EXCEPT !.Integer = <<[Operator |-> "equals", Value |-> 0]>>]}
            \cup {[b EXCEPT !.Float = <<[Operator |-> "equals", Value |-> 0]>>]}
            \cup {[b EXCEPT !.StringArray = <<[Operator |-> o, Value |-> v]>>] :
                     o \in {"containsAny", "containsAll"},
                     v \in {<<"uuid">>, <<"uuid", "word">>}}
    IN UNION {options(none(p)) : p \in {"a", "b", "_id"}}

\* the queries handed to Validate: the leaves, the leaves with a filter, and
\* the conjunctions and disjunctions of up to two leaves
Queries ==
    LET lists == {<<>>} \cup {<<f>> : f \in LeafQueries}
                 \cup {<<f, g>> : f \in {l \in LeafQueries : l.Property = "a"},
                                  g \in {l \in LeafQueries : l.Property = "_id"}}
        bare == CHOOSE l \in LeafQueries :
                    /\ l.Property = "a"
                    /\ \A o \in {l.VectorFlat, l.VectorVamana, l.Text, l.String, l.Integer,
                                 l.Float, l.StringArray} : o = <<>>
    IN LeafQueries
       \cup {[q EXCEPT !.VectorFlat[1].Filter = <<f>>] :
                q \in {l \in LeafQueries : l.VectorFlat # <<>>}, f \in LeafQueries}
       \cup {[q EXCEPT !.Text[1].Filter = <<f>>] :
                q \in {l \in LeafQueries : l.Text # <<>>}, f \in LeafQueries}
       \cup {[bare EXCEPT !.Property = "_and", !.And = l] : l \in lists}
       \cup {[bare EXCEPT !.Property = "_or", !.Or = l] : l \in lists}

\* the schemas: one property "a" of every index type, a vectorFlat one with
\* its vector size
Schemas ==
    {[p \in {"a"} |-> [Type |-> t, VectorFlat |-> <<>>]] :
        t \in {"vectorVamana", "text", "string", "stringArray", "integer", "float"}}
    \cup {[p \in {"a"} |-> [Type |-> "vectorFlat", VectorFlat |-> <<[VectorSize |-> n]>>]] :
             n \in 1..MaxVectorSize}

\* the call q.Validate(schema) on the query and the schema at hand
Query_Validate ==
    /\ lastOp.op = "Query"
    /\ lastOp' = Op("Validate", 0, lastOp.x, Validate(lastOp.x[1], lastOp.x[2]), 0)
    /\ UNCHANGED <<training, variant, distFnName, paramThreshold, items, kv, flatCentroids,
                   centroidDists, threshold, failures, panicked, hist>>

InitValidate ==
    /\ variant = "none"
    /\ distFnName = DistanceEuclidean
    /\ paramThreshold = Nil
    /\ items = EmptyMap
    /\ kv = EmptyMap
    /\ flatCentroids = <<>>
    /\ centroidDists = <<>>
    /\ threshold = Nil
    /\ failures = 0
    /\ panicked = FALSE
    /\ \E q \in Queries, schema \in Schemas :
           lastOp = [op |-> "Query", id |-> 0, x |-> <<q, schema>>, res |-> "pending",
                     dist |-> 0, afterTrain |-> FALSE]
    /\ hist = [i \in Ids |-> HistNone]
    /\ training = FitIdle

NextValidate == Query_Validate

SpecValidate == InitValidate /\ [][NextValidate]_vars

\* the option of the query q that the index type t asks for
OptionOf(q, t) ==
    IF t = "vectorFlat" THEN q.VectorFlat
    ELSE IF t = "text" THEN q.Text
    ELSE IF t = "string" THEN q.String
    ELSE IF t = "stringArray" THEN q.StringArray
    ELSE IF t = "integer" THEN q.Integer
    ELSE q.Float

\* C27: Validate of a query whose property is not _and, _or or _id returns
\* nil only if the property is in the schema, its index type is vectorFlat,
\* text, string, stringArray, integer or float and the option of that type is
\* set, and for vectorFlat the query vector has the vector size of the schema
\* and the filter, if any, validates; the property of any other index type
\* yields an error.
C27_ValidateBaseCase ==
    (lastOp.op = "Validate" /\ lastOp.x[1].Property \notin {"_and", "_or", "_id"})
    => LET q == lastOp.x[1]
           schema == lastOp.x[2]
       IN /\ lastOp.res = "nil"
             => /\ q.Property \in DOMAIN schema
                /\ schema[q.Property].Type \in
                       {"vectorFlat", "text", "string", "stringArray", "integer", "float"}
                /\ OptionOf(q, schema[q.Property].Type) # <<>>
                /\ schema[q.Property].Type = "vectorFlat"
                   => /\ Len(q.VectorFlat[1].Vector) = schema[q.Property].VectorFlat[1].VectorSize
                      /\ q.VectorFlat[1].Filter # <<>>
                         => Validate(q.VectorFlat[1].Filter[1], schema) = "nil"
          /\ (/\ q.Property \in DOMAIN schema
              /\ schema[q.Property].Type \notin
                     {"vectorFlat", "text", "string", "stringArray", "integer", "float"})
             => lastOp.res = "error"

\* Validate returned nil for a vectorFlat query with a vector of the size of
\* the schema and a filter
C27_Witness ==
    /\ lastOp.op = "Validate" /\ lastOp.res = "nil"
    /\ lastOp.x[1].Property = "a"
    /\ lastOp.x[2]["a"].Type = "vectorFlat"
    /\ lastOp.x[1].VectorFlat # <<>>
    /\ Len(lastOp.x[1].VectorFlat[1].Vector) = lastOp.x[2]["a"].VectorFlat[1].VectorSize
    /\ lastOp.x[1].VectorFlat[1].Filter # <<>>
    /\ lastOp.x[1].VectorFlat[1].Filter[1].Property = "_id"

====
